---- MODULE Spec2Model ----
(***************************************************************************)
(* langflow2langgraph: conversion of a LangFlow flow document into         *)
(* LangGraph program text.  The model follows                              *)
(* src/langflow2langgraph/{converter,parser,mapping,edge_handler,          *)
(* code_generator,validator}.py.  Text is modelled as TLA+ strings and a   *)
(* program as the sequence of its lines (the code joins them with "\n").   *)
(***************************************************************************)
EXTENDS Integers, Sequences, FiniteSets, TLC

(***************************************************************************)
(* String helpers (Python str operations used by the source).              *)
(***************************************************************************)

\* s[i] of a string, 1-based
CharAt(s, i) == SubSeq(s, i, i)

\* p in s
Contains(s, p) ==
  \E i \in 0..(Len(s) - Len(p)) : SubSeq(s, i + 1, i + Len(p)) = p

\* s.startswith(p)
StartsWith(s, p) == Len(p) <= Len(s) /\ SubSeq(s, 1, Len(p)) = p

\* s.endswith(p)
EndsWith(s, p) ==
  Len(p) <= Len(s) /\ SubSeq(s, Len(s) - Len(p) + 1, Len(s)) = p

UpperChars == "ABCDEFGHIJKLMNOPQRSTUVWXYZ"
LowerChars == "abcdefghijklmnopqrstuvwxyz"
DigitChars == "0123456789"

\* c.lower() of one character
LowerChar(c) ==
  IF \E i \in 1..26 : CharAt(UpperChars, i) = c
    THEN CharAt(LowerChars, CHOOSE i \in 1..26 : CharAt(UpperChars, i) = c)
    ELSE c

RECURSIVE Lower(_)
\* s.lower()
Lower(s) == IF s = "" THEN "" ELSE LowerChar(Head(s)) \o Lower(Tail(s))

RECURSIVE LastSegment(_)
\* s.split(".")[-1]
LastSegment(s) ==
  IF ~Contains(s, ".") THEN s
  ELSE LastSegment(SubSeq(s, (CHOOSE i \in 1..Len(s) : CharAt(s, i) = "."
                                   /\ \A j \in 1..(i - 1) : CharAt(s, j) # ".") + 1,
                          Len(s)))

(***************************************************************************)
(* Node classification: node_categories.py and mapping.get_node_category.  *)
(***************************************************************************)

LLM == "llm"
CHAIN == "chain"
AGENT == "agent"
TOOL == "tool"
MEMORY == "memory"
PROMPT == "prompt"
RETRIEVER == "retriever"
VECTORSTORE == "vectorstore"
EMBEDDING == "embedding"
DOCUMENT == "document"
TEXT_SPLITTER == "text_splitter"
UTILITY == "utility"
CUSTOM == "custom"
OUTPUT_PARSER == "output_parser"
ROUTER == "router"
CHAT_MODEL == "chat_model"
DOCUMENT_TRANSFORMER == "document_transformer"

\* the closed category set (class NodeCategory)
NodeCategory ==
  { LLM, CHAIN, AGENT, TOOL, MEMORY, PROMPT, RETRIEVER, VECTORSTORE, EMBEDDING,
    DOCUMENT, TEXT_SPLITTER, UTILITY, CUSTOM, OUTPUT_PARSER, ROUTER, CHAT_MODEL,
    DOCUMENT_TRANSFORMER }

\* the class-path table, as <<key, category>> pairs in dictionary order
LANGFLOW_CLASS_TO_CATEGORY ==
  <<
    <<"langflow.interface.llms.base", LLM>>,
    <<"langflow.interface.llms.chatmodels", CHAT_MODEL>>,
    <<"langchain.llms.openai.OpenAI", LLM>>,
    <<"langchain.llms.openai.AzureOpenAI", LLM>>,
    <<"langchain.chat_models.openai.ChatOpenAI", CHAT_MODEL>>,
    <<"langchain.chat_models.openai.AzureChatOpenAI", CHAT_MODEL>>,
    <<"langchain.llms.huggingface_hub.HuggingFaceHub", LLM>>,
    <<"langchain.llms.huggingface_pipeline.HuggingFacePipeline", LLM>>,
    <<"langchain.llms.huggingface_endpoint.HuggingFaceEndpoint", LLM>>,
    <<"langchain.llms.anthropic.ChatAnthropic", CHAT_MODEL>>,
    <<"langchain.chat_models.anthropic.ChatAnthropic", CHAT_MODEL>>,
    <<"langchain.llms.cohere.Cohere", LLM>>,
    <<"langchain.chat_models.cohere.ChatCohere", CHAT_MODEL>>,
    <<"langchain.llms.ollama.Ollama", LLM>>,
    <<"langchain.chat_models.ollama.ChatOllama", CHAT_MODEL>>,
    <<"langchain.llms.vertexai.VertexAI", LLM>>,
    <<"langchain.chat_models.vertexai.ChatVertexAI", CHAT_MODEL>>,
    <<"langchain.llms.google_palm.GooglePalm", LLM>>,
    <<"langchain.chat_models.google_palm.ChatGooglePalm", CHAT_MODEL>>,
    <<"langflow.interface.chains.base", CHAIN>>,
    <<"langchain.chains.llm.LLMChain", CHAIN>>,
    <<"langchain.chains.conversation.ConversationChain", CHAIN>>,
    <<"langchain.chains.qa_with_sources.QAWithSourcesChain", CHAIN>>,
    <<"langchain.chains.retrieval_qa.base.RetrievalQA", CHAIN>>,
    <<"langchain.chains.router.base.RouterChain", ROUTER>>,
    <<"langchain.chains.router.multi_prompt.MultiPromptChain", ROUTER>>,
    <<"langchain.chains.router.llm_router.LLMRouterChain", ROUTER>>,
    <<"langchain.chains.sequential.SequentialChain", CHAIN>>,
    <<"langchain.chains.transform.TransformChain", CHAIN>>,
    <<"langchain.chains.summarize.SummarizeChain", CHAIN>>,
    <<"langchain.chains.mapreduce.MapReduceChain", CHAIN>>,
    <<"langchain.chains.combine_documents.base.BaseCombineDocumentsChain", CHAIN>>,
    <<"langchain.chains.combine_documents.stuff.StuffDocumentsChain", CHAIN>>,
    <<"langchain.chains.combine_documents.map_reduce.MapReduceDocumentsChain", CHAIN>>,
    <<"langchain.chains.combine_documents.refine.RefineDocumentsChain", CHAIN>>,
    <<"langchain.chains.graph_qa.base.GraphQAChain", CHAIN>>,
    <<"langchain.chains.openai_functions.base.create_openai_fn_chain", CHAIN>>,
    <<"langchain.chains.openai_functions.base.create_structured_output_chain", CHAIN>>,
    <<"langflow.interface.agents.base", AGENT>>,
    <<"langchain.agents.agent.AgentExecutor", AGENT>>,
    <<"langchain.agents.conversational.base.ConversationalAgent", AGENT>>,
    <<"langchain.agents.mrkl.base.ZeroShotAgent", AGENT>>,
    <<"langchain.agents.react.base.ReActAgent", AGENT>>,
    <<"langchain.agents.self_ask_with_search.base.SelfAskWithSearchAgent", AGENT>>,
    <<"langchain.agents.openai_functions_agent.base.OpenAIFunctionsAgent", AGENT>>,
    <<"langchain.agents.openai_functions_multi_agent.base.OpenAIMultiFunctionsAgent", AGENT>>,
    <<"langchain.agents.structured_chat.base.StructuredChatAgent", AGENT>>,
    <<"langchain.agents.agent_toolkits.sql.base.create_sql_agent", AGENT>>,
    <<"langchain.agents.agent_toolkits.json.base.create_json_agent", AGENT>>,
    <<"langchain.agents.agent_toolkits.csv.base.create_csv_agent", AGENT>>,
    <<"langchain.agents.agent_toolkits.vectorstore.base.create_vectorstore_agent", AGENT>>,
    <<"langflow.interface.tools.base", TOOL>>,
    <<"langchain.tools.base.BaseTool", TOOL>>,
    <<"langchain.tools.python.tool.PythonREPLTool", TOOL>>,
    <<"langchain.tools.requests.tool.RequestsTool", TOOL>>,
    <<"langchain.tools.search.tool.SearchTool", TOOL>>,
    <<"langchain.tools.shell.tool.ShellTool", TOOL>>,
    <<"langchain.tools.bing_search.tool.BingSearchTool", TOOL>>,
    <<"langchain.tools.google_search.tool.GoogleSearchTool", TOOL>>,
    <<"langchain.tools.searx_search.tool.SearxSearchTool", TOOL>>,
    <<"langchain.tools.tavily_search.TavilySearchResults", TOOL>>,
    <<"langchain.tools.arxiv.tool.ArxivQueryRun", TOOL>>,
    <<"langchain.tools.wikipedia.tool.WikipediaQueryRun", TOOL>>,
    <<"langchain.tools.sql_database.tool.QuerySQLDataBaseTool", TOOL>>,
    <<"langchain.tools.openapi.utils.api_models.APIOperation", TOOL>>,
    <<"langchain.tools.json.tool.JsonSpec", TOOL>>,
    <<"langchain.tools.file_management.file.ReadFileTool", TOOL>>,
    <<"langchain.tools.file_management.file.WriteFileTool", TOOL>>,
    <<"langchain.tools.file_management.file.ListDirectoryTool", TOOL>>,
    <<"langchain.tools.human.tool.HumanInputRun", TOOL>>,
    <<"langchain.output_parsers.regex.RegexParser", OUTPUT_PARSER>>,
    <<"langchain.output_parsers.pydantic.PydanticOutputParser", OUTPUT_PARSER>>,
    <<"langchain.output_parsers.json.JsonOutputParser", OUTPUT_PARSER>>,
    <<"langchain.output_parsers.structured.StructuredOutputParser", OUTPUT_PARSER>>,
    <<"langchain.output_parsers.format_instructions.StructuredOutputParser", OUTPUT_PARSER>>,
    <<"langchain.output_parsers.openai_functions.JsonOutputFunctionsParser", OUTPUT_PARSER>>,
    <<"langchain.output_parsers.openai_functions.PydanticOutputFunctionsParser", OUTPUT_PARSER>>,
    <<"langflow.interface.memory.base", MEMORY>>,
    <<"langchain.memory.buffer.ConversationBufferMemory", MEMORY>>,
    <<"langchain.memory.buffer_window.ConversationBufferWindowMemory", MEMORY>>,
    <<"langchain.memory.summary.ConversationSummaryMemory", MEMORY>>,
    <<"langchain.memory.summary_buffer.ConversationSummaryBufferMemory", MEMORY>>,
    <<"langchain.memory.chat_message_histories.in_memory.ChatMessageHistory", MEMORY>>,
    <<"langchain.memory.chat_message_histories.redis.RedisChatMessageHistory", MEMORY>>,
    <<"langchain.memory.chat_message_histories.file.FileChatMessageHistory", MEMORY>>,
    <<"langchain.memory.chat_message_histories.postgres.PostgresChatMessageHistory", MEMORY>>,
    <<"langchain.memory.entity.entity_memory.EntityMemory", MEMORY>>,
    <<"langchain.memory.token_buffer.ConversationTokenBufferMemory", MEMORY>>,
    <<"langchain.memory.combined.CombinedMemory", MEMORY>>,
    <<"langchain.memory.vector_store.VectorStoreRetrieverMemory", MEMORY>>,
    <<"langflow.interface.prompts.base", PROMPT>>,
    <<"langchain.prompts.prompt.PromptTemplate", PROMPT>>,
    <<"langchain.prompts.chat.ChatPromptTemplate", PROMPT>>,
    <<"langchain.prompts.chat.HumanMessagePromptTemplate", PROMPT>>,
    <<"langchain.prompts.chat.AIMessagePromptTemplate", PROMPT>>,
    <<"langchain.prompts.chat.SystemMessagePromptTemplate", PROMPT>>,
    <<"langchain.prompts.few_shot.FewShotPromptTemplate", PROMPT>>,
    <<"langchain.prompts.pipeline.PipelinePromptTemplate", PROMPT>>,
    <<"langchain.prompts.example_selector.base.BaseExampleSelector", PROMPT>>,
    <<"langchain.prompts.example_selector.semantic_similarity.SemanticSimilarityExampleSelector", PROMPT>>,
    <<"langchain.prompts.example_selector.length_based.LengthBasedExampleSelector", PROMPT>>,
    <<"langchain.prompts.example_selector.ngram_overlap.NGramOverlapExampleSelector", PROMPT>>,
    <<"langchain.prompts.example_selector.mmr.MaxMarginalRelevanceExampleSelector", PROMPT>>,
    <<"langflow.interface.retrievers.base", RETRIEVER>>,
    <<"langchain.retrievers.contextual_compression.ContextualCompressionRetriever", RETRIEVER>>,
    <<"langchain.retrievers.document_compressors.base.DocumentCompressorRetriever", RETRIEVER>>,
    <<"langchain.retrievers.document_compressors.base.BaseDocumentCompressor", DOCUMENT_TRANSFORMER>>,
    <<"langchain.retrievers.document_compressors.embeddings_filter.EmbeddingsFilter", DOCUMENT_TRANSFORMER>>,
    <<"langchain.retrievers.document_compressors.embeddings_redundant.EmbeddingsRedundantFilter", DOCUMENT_TRANSFORMER>>,
    <<"langchain.retrievers.document_compressors.llm_filter.LLMChainFilter", DOCUMENT_TRANSFORMER>>,
    <<"langchain.retrievers.multi_query.MultiQueryRetriever", RETRIEVER>>,
    <<"langchain.retrievers.self_query.base.SelfQueryRetriever", RETRIEVER>>,
    <<"langchain.retrievers.time_weighted.TimeWeightedVectorStoreRetriever", RETRIEVER>>,
    <<"langchain.retrievers.web_research.WebResearchRetriever", RETRIEVER>>,
    <<"langchain.retrievers.ensemble.EnsembleRetriever", RETRIEVER>>,
    <<"langchain.retrievers.parent_document.ParentDocumentRetriever", RETRIEVER>>,
    <<"langflow.interface.vectorstores.base", VECTORSTORE>>,
    <<"langchain.vectorstores.chroma.Chroma", VECTORSTORE>>,
    <<"langchain.vectorstores.faiss.FAISS", VECTORSTORE>>,
    <<"langchain.vectorstores.pinecone.Pinecone", VECTORSTORE>>,
    <<"langchain.vectorstores.qdrant.Qdrant", VECTORSTORE>>,
    <<"langchain.vectorstores.redis.Redis", VECTORSTORE>>,
    <<"langchain.vectorstores.weaviate.Weaviate", VECTORSTORE>>,
    <<"langchain.vectorstores.milvus.Milvus", VECTORSTORE>>,
    <<"langchain.vectorstores.elasticsearch.ElasticsearchStore", VECTORSTORE>>,
    <<"langchain.vectorstores.pgvector.PGVector", VECTORSTORE>>,
    <<"langchain.vectorstores.supabase.SupabaseVectorStore", VECTORSTORE>>,
    <<"langchain.vectorstores.mongodb_atlas.MongoDBAtlasVectorSearch", VECTORSTORE>>,
    <<"langflow.interface.embeddings.base", EMBEDDING>>,
    <<"langchain.embeddings.openai.OpenAIEmbeddings", EMBEDDING>>,
    <<"langchain.embeddings.huggingface.HuggingFaceEmbeddings", EMBEDDING>>,
    <<"langchain.embeddings.cohere.CohereEmbeddings", EMBEDDING>>,
    <<"langchain.embeddings.vertexai.VertexAIEmbeddings", EMBEDDING>>,
    <<"langchain.embeddings.google_palm.GooglePalmEmbeddings", EMBEDDING>>,
    <<"langchain.embeddings.ollama.OllamaEmbeddings", EMBEDDING>>,
    <<"langchain.embeddings.bedrock.BedrockEmbeddings", EMBEDDING>>,
    <<"langchain.embeddings.sentence_transformer.SentenceTransformerEmbeddings", EMBEDDING>>,
    <<"langchain.embeddings.tensorflow_hub.TensorflowHubEmbeddings", EMBEDDING>>,
    <<"langchain.embeddings.fake.FakeEmbeddings", EMBEDDING>>,
    <<"langflow.interface.document_loaders.base", DOCUMENT>>,
    <<"langchain.document_loaders.text.TextLoader", DOCUMENT>>,
    <<"langchain.document_loaders.pdf.PyPDFLoader", DOCUMENT>>,
    <<"langchain.document_loaders.csv_loader.CSVLoader", DOCUMENT>>,
    <<"langchain.document_loaders.json_loader.JSONLoader", DOCUMENT>>,
    <<"langchain.document_loaders.excel.UnstructuredExcelLoader", DOCUMENT>>,
    <<"langchain.document_loaders.web_base.WebBaseLoader", DOCUMENT>>,
    <<"langchain.document_loaders.youtube.YoutubeLoader", DOCUMENT>>,
    <<"langchain.document_loaders.directory.DirectoryLoader", DOCUMENT>>,
    <<"langchain.document_loaders.email.UnstructuredEmailLoader", DOCUMENT>>,
    <<"langchain.document_loaders.image.UnstructuredImageLoader", DOCUMENT>>,
    <<"langchain.document_loaders.image_captions.ImageCaptionLoader", DOCUMENT>>,
    <<"langchain.document_loaders.parsers.pdf.PyPDFParser", DOCUMENT>>,
    <<"langchain.document_loaders.blob_loaders.file_system.FileSystemBlobLoader", DOCUMENT>>,
    <<"langchain.document_loaders.blob_loaders.youtube.YoutubeAudioLoader", DOCUMENT>>,
    <<"langflow.interface.text_splitters.base", TEXT_SPLITTER>>,
    <<"langchain.text_splitter.CharacterTextSplitter", TEXT_SPLITTER>>,
    <<"langchain.text_splitter.RecursiveCharacterTextSplitter", TEXT_SPLITTER>>,
    <<"langchain.text_splitter.TokenTextSplitter", TEXT_SPLITTER>>,
    <<"langchain.text_splitter.SentenceTransformersTokenTextSplitter", TEXT_SPLITTER>>,
    <<"langchain.text_splitter.MarkdownTextSplitter", TEXT_SPLITTER>>,
    <<"langchain.text_splitter.HTMLTextSplitter", TEXT_SPLITTER>>,
    <<"langchain.text_splitter.PythonCodeTextSplitter", TEXT_SPLITTER>>,
    <<"langchain.text_splitter.LatexTextSplitter", TEXT_SPLITTER>>,
    <<"langflow.interface.utilities.base", UTILITY>>,
    <<"langchain.utilities.python.PythonREPL", UTILITY>>,
    <<"langchain.utilities.serpapi.SerpAPIWrapper", UTILITY>>,
    <<"langchain.utilities.wikipedia.WikipediaAPIWrapper", UTILITY>>,
    <<"langchain.utilities.tavily_search.TavilySearchAPIWrapper", UTILITY>>,
    <<"langchain.utilities.google_search.GoogleSearchAPIWrapper", UTILITY>>,
    <<"langchain.utilities.bing_search.BingSearchAPIWrapper", UTILITY>>,
    <<"langchain.utilities.searx_search.SearxSearchWrapper", UTILITY>>,
    <<"langchain.utilities.arxiv.ArxivAPIWrapper", UTILITY>>,
    <<"langchain.utilities.openweathermap.OpenWeatherMapAPIWrapper", UTILITY>>,
    <<"langchain.utilities.sql_database.SQLDatabase", UTILITY>>,
    <<"langchain.utilities.wolfram_alpha.WolframAlphaAPIWrapper", UTILITY>>,
    <<"langchain.utilities.zapier.ZapierNLAWrapper", UTILITY>>,
    <<"langchain.utilities.graphql.GraphQLAPIWrapper", UTILITY>>,
    <<"langflow.custom.base", CUSTOM>>,
    <<"langflow.custom.utilities.PythonFunction", UTILITY>>,
    <<"langflow.custom.nodes.CustomNode", CUSTOM>>,
    <<"langflow.custom.nodes.InputNode", CUSTOM>>,
    <<"langflow.custom.nodes.OutputNode", CUSTOM>>
  >>

TableKey(i) == LANGFLOW_CLASS_TO_CATEGORY[i][1]
TableCategory(i) == LANGFLOW_CLASS_TO_CATEGORY[i][2]
TableIndex == 1..Len(LANGFLOW_CLASS_TO_CATEGORY)

\* the keyword list of each branch of the if/elif chain of get_node_category
Keywords ==
     CHAT_MODEL :> {"chatmodel", "chatgpt", "chatvertexai", "chatanthropic",
                  "chatcohere", "chatollama", "chatpalm"}
  @@ LLM :> {"llm", "openai", "anthropic", "cohere", "huggingface", "vertexai",
           "palm", "ollama", "bedrock"}
  @@ OUTPUT_PARSER :> {"parser", "outputparser", "jsonoutput", "pydanticoutput",
                     "regexparser", "structuredoutput"}
  @@ ROUTER :> {"router", "multiprompt", "llmrouter"}
  @@ DOCUMENT_TRANSFORMER :> {"documentcompressor", "embeddings_filter", "embeddings_redundant",
                            "llmchainfilter"}
  @@ CHAIN :> {"chain"}
  @@ AGENT :> {"agent", "executor"}
  @@ TOOL :> {"tool"}
  @@ MEMORY :> {"memory", "chatmessagehistory"}
  @@ PROMPT :> {"prompt", "template", "exampleselector", "messageprompt"}
  @@ RETRIEVER :> {"retriever", "contextualcompression", "multiquery", "selfquery",
                 "timeweighted", "webresearch", "ensemble", "parentdocument"}
  @@ VECTORSTORE :> {"vectorstore", "faiss", "chroma", "pinecone", "qdrant", "redis",
                   "weaviate", "milvus", "elasticsearch", "pgvector", "supabase",
                   "mongodb"}
  @@ EMBEDDING :> {"embedding", "embeddings", "sentencetransformer",
                 "tensorflowhubeembeddings"}
  @@ DOCUMENT :> {"document", "loader", "textloader", "pdfloader", "csvloader",
                "jsonloader", "excelloader", "webbaseloader", "youtubeloader",
                "directoryloader", "emailloader", "imageloader", "blobloader"}
  @@ TEXT_SPLITTER :> {"splitter", "textsplitter", "charactertextsplitter",
                     "recursivetextsplitter", "tokentextsplitter", "markdowntextsplitter",
                     "htmltextsplitter", "pythoncodetextsplitter", "latextextsplitter"}
  @@ UTILITY :> {"python", "function", "apiwrapper", "serpapi", "wikipedia", "tavily",
               "googlesearch", "bingsearch", "searx", "arxiv", "openweathermap",
               "sqldatabase", "wolframalpha", "zapier", "graphql"}

\* any(keyword in class_name for keyword in keywords)
AnyKeyword(class_name, keywords) == \E k \in keywords : Contains(class_name, k)

\* a fallback outside the closed set of categories: C9 tells it from the
\* fallback of the source
UnknownCategory == "unknown"

\* the category returned when no table key and no keyword matches
DefaultCategory == CUSTOM

\* the category of the first branch, in the given order of branches, that
\* has a keyword contained in class_name; the fallback if there is none
FirstGroup(order, class_name) ==
  IF \E i \in DOMAIN order : AnyKeyword(class_name, Keywords[order[i]])
    THEN order[CHOOSE i \in DOMAIN order :
                 /\ AnyKeyword(class_name, Keywords[order[i]])
                 /\ \A j \in 1..(i - 1) : ~AnyKeyword(class_name, Keywords[order[j]])]
    ELSE CUSTOM

\* a keyword scan that tries the LLM branch before the chat-model branch:
\* C10 tells it from the scan of the source
InferLLMFirst(class_name) ==
  FirstGroup(<< LLM, CHAT_MODEL, OUTPUT_PARSER, ROUTER, DOCUMENT_TRANSFORMER, CHAIN, AGENT,
                TOOL, MEMORY, PROMPT, RETRIEVER, VECTORSTORE, EMBEDDING, DOCUMENT,
                TEXT_SPLITTER, UTILITY >>, class_name)

\* the keyword scan over class_path.split(".")[-1].lower()
InferFromClassName(class_name) ==
  IF AnyKeyword(class_name, Keywords[CHAT_MODEL]) THEN CHAT_MODEL
  ELSE IF AnyKeyword(class_name, Keywords[LLM]) THEN LLM
  ELSE IF AnyKeyword(class_name, Keywords[OUTPUT_PARSER]) THEN OUTPUT_PARSER
  ELSE IF AnyKeyword(class_name, Keywords[ROUTER]) THEN ROUTER
  ELSE IF AnyKeyword(class_name, Keywords[DOCUMENT_TRANSFORMER]) THEN DOCUMENT_TRANSFORMER
  ELSE IF AnyKeyword(class_name, Keywords[CHAIN]) THEN CHAIN
  ELSE IF AnyKeyword(class_name, Keywords[AGENT]) THEN AGENT
  ELSE IF AnyKeyword(class_name, Keywords[TOOL]) THEN TOOL
  ELSE IF AnyKeyword(class_name, Keywords[MEMORY]) THEN MEMORY
  ELSE IF AnyKeyword(class_name, Keywords[PROMPT]) THEN PROMPT
  ELSE IF AnyKeyword(class_name, Keywords[RETRIEVER]) THEN RETRIEVER
  ELSE IF AnyKeyword(class_name, Keywords[VECTORSTORE]) THEN VECTORSTORE
  ELSE IF AnyKeyword(class_name, Keywords[EMBEDDING]) THEN EMBEDDING
  ELSE IF AnyKeyword(class_name, Keywords[DOCUMENT]) THEN DOCUMENT
  ELSE IF AnyKeyword(class_name, Keywords[TEXT_SPLITTER]) THEN TEXT_SPLITTER
  ELSE IF AnyKeyword(class_name, Keywords[UTILITY]) THEN UTILITY
  ELSE DefaultCategory

\* the partial-match loop: the first table entry, in dictionary order, whose
\* key is a prefix of or contained in class_path (0 when there is none)
PartialMatch(class_path) ==
  LET hits == { i \in TableIndex :
                  StartsWith(class_path, TableKey(i)) \/ Contains(class_path, TableKey(i)) }
  IN IF hits = {} THEN 0 ELSE CHOOSE i \in hits : \A j \in hits : i <= j

get_node_category(class_path) ==
  IF \E i \in TableIndex : TableKey(i) = class_path
    THEN TableCategory(CHOOSE i \in TableIndex : TableKey(i) = class_path)
  ELSE IF PartialMatch(class_path) # 0
    THEN TableCategory(PartialMatch(class_path))
  ELSE InferFromClassName(Lower(LastSegment(class_path)))

(***************************************************************************)
(* Regular-expression helpers: the pieces of Python's re module that the   *)
(* source's patterns use (\w, \s, leftmost non-overlapping findall).       *)
(***************************************************************************)

SetMin(S) == CHOOSE x \in S : \A y \in S : x <= y
SetMax(S) == CHOOSE x \in S : \A y \in S : x >= y

IsUpper(c) == Len(c) = 1 /\ Contains(UpperChars, c)
IsLower(c) == Len(c) = 1 /\ Contains(LowerChars, c)
\* c.isdigit()
IsDigit(c) == Len(c) = 1 /\ Contains(DigitChars, c)
\* c.isalnum()
IsAlnum(c) == IsUpper(c) \/ IsLower(c) \/ IsDigit(c)
\* \w
IsWordChar(c) == IsAlnum(c) \/ c = "_"
\* \s
IsSpace(c) == c \in {" ", "\t", "\n", "\r", "\f"}
IsQuote(c) == c \in {"\"", "'"}

\* the index of the last character of the longest run of characters
\* satisfying P that starts at i (i - 1 when the run is empty)
RunEnd(P(_), s, i) ==
  LET stop == { j \in i..Len(s) : ~P(CharAt(s, j)) }
  IN IF stop = {} THEN Len(s) ELSE SetMin(stop) - 1

\* \w+ at i: end of the word, i - 1 if there is none
WordEnd(s, i) == RunEnd(IsWordChar, s, i)
\* \s* at i: the first index after the white space
SkipWs(s, i) == RunEnd(IsSpace, s, i) + 1

\* s[i:i+len(lit)] == lit
LitAt(s, i, lit) == i >= 1 /\ i + Len(lit) - 1 <= Len(s) /\ SubSeq(s, i, i + Len(lit) - 1) = lit

NoMatch == [ok |-> FALSE, end |-> 0, g1 |-> "", g2 |-> ""]
Match(e, a, b) == [ok |-> TRUE, end |-> e, g1 |-> a, g2 |-> b]

RECURSIVE FindAllFrom(_, _, _)
\* re.findall: the leftmost non-overlapping matches of matcher M in s from
\* index pos on, in order (every pattern used here consumes a character)
FindAllFrom(M(_, _), s, pos) ==
  LET hits == { i \in pos..Len(s) : M(s, i).ok }
  IN IF hits = {} THEN << >>
     ELSE LET m == M(s, SetMin(hits))
          IN << m >> \o FindAllFrom(M, s, m.end + 1)

FindAll(M(_, _), s) == FindAllFrom(M, s, 1)

\* re.search: the leftmost match, NoMatch if there is none
Search(M(_, _), s) ==
  LET hits == { i \in 1..Len(s) : M(s, i).ok }
  IN IF hits = {} THEN NoMatch ELSE M(s, SetMin(hits))

Range(seq) == { seq[i] : i \in DOMAIN seq }

RECURSIVE SplitOn(_, _)
\* s.split(sep) for a non-empty separator
SplitOn(s, sep) ==
  LET hits == { i \in 1..Len(s) : LitAt(s, i, sep) }
  IN IF hits = {} THEN << s >>
     ELSE LET i == SetMin(hits)
          IN << SubSeq(s, 1, i - 1) >> \o SplitOn(SubSeq(s, i + Len(sep), Len(s)), sep)

\* s.strip()
Strip(s) ==
  LET keep == { i \in 1..Len(s) : ~IsSpace(CharAt(s, i)) }
  IN IF keep = {} THEN "" ELSE SubSeq(s, SetMin(keep), SetMax(keep))

RECURSIVE JoinWith(_, _)
\* sep.join(parts)
JoinWith(parts, sep) ==
  IF Len(parts) = 0 THEN ""
  ELSE IF Len(parts) = 1 THEN parts[1]
  ELSE parts[1] \o sep \o JoinWith(Tail(parts), sep)

(***************************************************************************)
(* Guard features: edge_handler.extract_*_fields and the connective test.  *)
(***************************************************************************)

\* r'(\w+)\s*==\s*["\']' at index i
EqFieldAt(s, i) ==
  LET e == WordEnd(s, i)
      p == SkipWs(s, e + 1)
      q == SkipWs(s, p + 2)
  IN IF e >= i /\ LitAt(s, p, "==") /\ q <= Len(s) /\ IsQuote(CharAt(s, q))
       THEN Match(q, SubSeq(s, i, e), "")
       ELSE NoMatch

\* r'(\w+)\s*(?:>|<|>=|<=|!=)\s*' at index i
CompFieldAt(s, i) ==
  LET e == WordEnd(s, i)
      p == SkipWs(s, e + 1)
  IN IF e < i THEN NoMatch
     ELSE IF LitAt(s, p, ">") \/ LitAt(s, p, "<")
       THEN Match(SkipWs(s, p + 1) - 1, SubSeq(s, i, e), "")
     ELSE IF LitAt(s, p, "!=")
       THEN Match(SkipWs(s, p + 2) - 1, SubSeq(s, i, e), "")
     ELSE NoMatch

\* r'(\w+)\.(\w+)\(' at index i
MethodCallAt(s, i) ==
  LET e == WordEnd(s, i)
      f == WordEnd(s, e + 2)
  IN IF e >= i /\ LitAt(s, e + 1, ".") /\ f >= e + 2 /\ LitAt(s, f + 1, "(")
       THEN Match(f + 1, SubSeq(s, i, e), SubSeq(s, e + 2, f))
       ELSE NoMatch

\* r'(\w+)\s*\(\s*(\w+)' at index i
FuncCallAt(s, i) ==
  LET e == WordEnd(s, i)
      p == SkipWs(s, e + 1)
      a == SkipWs(s, p + 1)
      b == WordEnd(s, a)
  IN IF e >= i /\ LitAt(s, p, "(") /\ b >= a
       THEN Match(b, SubSeq(s, i, e), SubSeq(s, a, b))
       ELSE NoMatch

\* r'\s+(?:and|or|not)\s+' at index i
LogicalOpAt(s, i) ==
  LET p == SkipWs(s, i)
      after(n) == p + n <= Len(s) /\ IsSpace(CharAt(s, p + n))
  IN IF p > i /\ ( (LitAt(s, p, "and") /\ after(3)) \/ (LitAt(s, p, "or") /\ after(2))
                   \/ (LitAt(s, p, "not") /\ after(3)) )
       THEN Match(p, "", "")
       ELSE NoMatch

Group1s(ms) == { ms[k].g1 : k \in DOMAIN ms }

extract_equality_fields(conditions) ==
  UNION { Group1s(FindAll(EqFieldAt, conditions[k])) : k \in DOMAIN conditions }

extract_comparison_fields(conditions) ==
  UNION { Group1s(FindAll(CompFieldAt, conditions[k])) : k \in DOMAIN conditions }

extract_function_fields(conditions) ==
  UNION { Group1s(FindAll(MethodCallAt, conditions[k]))
            \cup { m.g2 : m \in { x \in Range(FindAll(FuncCallAt, conditions[k])) : x.g1 = "len" } }
          : k \in DOMAIN conditions }

\* any(re.search(r'\s+(?:and|or|not)\s+', condition) for condition in conditions)
HasLogicalOps(conditions) ==
  \E k \in DOMAIN conditions : Search(LogicalOpAt, conditions[k]).ok

(***************************************************************************)
(* mapping.convert_edge_condition: guard text to a lambda expression.      *)
(***************************************************************************)

\* the first index of lit in s (0 if absent)
IndexOf(s, lit) ==
  LET hits == { i \in 1..Len(s) : LitAt(s, i, lit) }
  IN IF hits = {} THEN 0 ELSE SetMin(hits)

\* s.split(sep, 1) when sep occurs in s
SplitOnce(s, sep) ==
  << SubSeq(s, 1, IndexOf(s, sep) - 1), SubSeq(s, IndexOf(s, sep) + Len(sep), Len(s)) >>

\* s.strip("'\"")
StripQuotes(s) ==
  LET keep == { i \in 1..Len(s) : ~IsQuote(CharAt(s, i)) }
  IN IF keep = {} THEN "" ELSE SubSeq(s, SetMin(keep), SetMax(keep))

NotQuote(c) == ~IsQuote(c)
IsNumChar(c) == IsDigit(c) \/ c = "."

\* r'(\w+)\s*==\s*[\'"]([^\'"]*)[\'"]' at index i
StringEqAt(s, i) ==
  LET e == WordEnd(s, i)
      p == SkipWs(s, e + 1)
      q == SkipWs(s, p + 2)
      r == RunEnd(NotQuote, s, q + 1)
  IN IF e >= i /\ LitAt(s, p, "==") /\ q <= Len(s) /\ IsQuote(CharAt(s, q)) /\ r + 1 <= Len(s)
       THEN Match(r + 1, SubSeq(s, i, e), SubSeq(s, q + 1, r))
       ELSE NoMatch

\* r'(\w+)\s*==\s*([\d\.]+|True|False)' at index i
NumericEqAt(s, i) ==
  LET e == WordEnd(s, i)
      p == SkipWs(s, e + 1)
      q == SkipWs(s, p + 2)
      r == RunEnd(IsNumChar, s, q)
  IN IF ~(e >= i /\ LitAt(s, p, "==")) THEN NoMatch
     ELSE IF r >= q THEN Match(r, SubSeq(s, i, e), SubSeq(s, q, r))
     ELSE IF LitAt(s, q, "True") THEN Match(q + 3, SubSeq(s, i, e), "True")
     ELSE IF LitAt(s, q, "False") THEN Match(q + 4, SubSeq(s, i, e), "False")
     ELSE NoMatch

\* r'[\'"](.+?)[\'"](\s+in\s+)(\w+)' at index i: g1 the value, g2 the field
ValueInFieldAt(s, i) ==
  LET closes == { j \in (i + 2)..Len(s) :
                    /\ IsQuote(CharAt(s, j))
                    /\ \A k \in (i + 1)..(j - 1) : CharAt(s, k) # "\n"
                    /\ SkipWs(s, j + 1) > j + 1
                    /\ LitAt(s, SkipWs(s, j + 1), "in")
                    /\ SkipWs(s, SkipWs(s, j + 1) + 2) > SkipWs(s, j + 1) + 2
                    /\ WordEnd(s, SkipWs(s, SkipWs(s, j + 1) + 2)) >= SkipWs(s, SkipWs(s, j + 1) + 2) }
  IN IF i <= Len(s) /\ IsQuote(CharAt(s, i)) /\ closes # {}
       THEN LET j == SetMin(closes)
                w == SkipWs(s, SkipWs(s, j + 1) + 2)
            IN Match(WordEnd(s, w), SubSeq(s, i + 1, j - 1), SubSeq(s, w, WordEnd(s, w)))
       ELSE NoMatch

\* r'(\w+)(\s+in\s+)\[(.*?)\]' at index i: g1 the field, g2 the list body
FieldInListAt(s, i) ==
  LET e == WordEnd(s, i)
      p == SkipWs(s, e + 1)
      q == SkipWs(s, p + 2)
      closes == { j \in (q + 1)..Len(s) :
                    CharAt(s, j) = "]" /\ \A k \in (q + 1)..(j - 1) : CharAt(s, k) # "\n" }
  IN IF e >= i /\ p > e + 1 /\ LitAt(s, p, "in") /\ q > p + 2 /\ LitAt(s, q, "[") /\ closes # {}
       THEN Match(SetMin(closes), SubSeq(s, i, e), SubSeq(s, q + 1, SetMin(closes) - 1))
       ELSE NoMatch

LambdaPrefix == "lambda state: "

RECURSIVE ReplaceAll(_, _, _)
\* s.replace(old, new) for a non-empty old
ReplaceAll(s, old, new) ==
  IF IndexOf(s, old) = 0 THEN s
  ELSE SubSeq(s, 1, IndexOf(s, old) - 1) \o new
         \o ReplaceAll(SubSeq(s, IndexOf(s, old) + Len(old), Len(s)), old, new)

\* "state.get('<field>') <op> <value>" as a lambda
StateCompare(field, op, value) ==
  LambdaPrefix \o "state.get('" \o field \o "') " \o op \o " " \o value

Quoted(v) == "'" \o v \o "'"

MapSeq(F(_), seq) == [k \in DOMAIN seq |-> F(seq[k])]

RECURSIVE convert_edge_condition(_)
convert_edge_condition(condition) ==
  LET StripLambda(part) == ReplaceAll(part, LambdaPrefix, "")
      ConvertPart(part) == StripLambda(convert_edge_condition(Strip(part)))
      CleanValue(v) == Quoted(StripQuotes(Strip(v)))
      \* field, value = condition.split(op, 1), both stripped
      Compare(parts, op) == StateCompare(Strip(parts[1]), op, Strip(parts[2]))
      Equality(string_match, numeric_match, parts) ==
        IF string_match.ok
          THEN StateCompare(Strip(string_match.g1), "==", Quoted(Strip(string_match.g2)))
        ELSE IF numeric_match.ok
          THEN StateCompare(Strip(numeric_match.g1), "==", Strip(numeric_match.g2))
        ELSE StateCompare(Strip(parts[1]), "==", Quoted(StripQuotes(Strip(parts[2]))))
      Inequality(field, value) ==
        IF value \in {"True", "False"}
          THEN StateCompare(field, "!=", value)
          ELSE StateCompare(field, "!=", Quoted(value))
      Membership(in_match, in_list_match) ==
        IF in_match.ok
          THEN LambdaPrefix \o "'" \o Strip(in_match.g1) \o "' in state.get('"
                 \o Strip(in_match.g2) \o "', '')"
        ELSE IF in_list_match.ok
          THEN LambdaPrefix \o "state.get('" \o Strip(in_list_match.g1) \o "') in ["
                 \o JoinWith(MapSeq(CleanValue, SplitOn(in_list_match.g2, ",")), ", ") \o "]"
        ELSE LambdaPrefix \o condition
      Negation(stripped) ==
        LambdaPrefix \o "not ("
          \o StripLambda(convert_edge_condition(Strip(SubSeq(stripped, 5, Len(stripped))))) \o ")"
  IN
  IF Contains(condition, "==") THEN
    Equality(Search(StringEqAt, condition), Search(NumericEqAt, condition),
             SplitOnce(condition, "=="))
  ELSE IF Contains(condition, "!=") THEN
    Inequality(Strip(SplitOnce(condition, "!=")[1]),
               StripQuotes(Strip(SplitOnce(condition, "!=")[2])))
  ELSE IF Contains(condition, ">") /\ ~Contains(condition, ">=") THEN
    Compare(SplitOnce(condition, ">"), ">")
  ELSE IF Contains(condition, "<") /\ ~Contains(condition, "<=") THEN
    Compare(SplitOnce(condition, "<"), "<")
  ELSE IF Contains(condition, ">=") THEN
    Compare(SplitOnce(condition, ">="), ">=")
  ELSE IF Contains(condition, "<=") THEN
    Compare(SplitOnce(condition, "<="), "<=")
  ELSE IF Contains(condition, " in ") THEN
    Membership(Search(ValueInFieldAt, condition), Search(FieldInListAt, condition))
  ELSE IF Contains(condition, " and ") THEN
    LambdaPrefix \o JoinWith(MapSeq(ConvertPart, SplitOn(condition, " and ")), " and ")
  ELSE IF Contains(condition, " or ") THEN
    LambdaPrefix \o JoinWith(MapSeq(ConvertPart, SplitOn(condition, " or ")), " or ")
  ELSE IF StartsWith(Strip(condition), "not ") THEN
    Negation(Strip(condition))
  ELSE LambdaPrefix \o condition

(***************************************************************************)
(* code_generators.py: the per-category node templates, as the lines of    *)
(* the text each generator returns for a node without an "inputs" entry    *)
(* (model_name "", temperature 0.7, template "", chunk_size 1000).         *)
(***************************************************************************)

\* node.get("class_path", "")
NodeClassPath(node_data) ==
  IF "class_path" \in DOMAIN node_data THEN node_data["class_path"] ELSE ""

\* node_data.get("class_path", "").split(".")[-1]
ClassType(node_data) == LastSegment(NodeClassPath(node_data))

generate_llm_node_code(node_name, node_data) ==
  << "def " \o node_name \o "(state):",
     "    \"\"\"Process the state using an LLM.\"\"\"",
     "    # LLM implementation",
     "    # Model: , Temperature: 0.7",
     "    if \"prompt\" in state:",
     "        # In a real implementation, this would call the LLM",
     "        state[\"llm_response\"] = f\"Response to: {state['prompt']}\"",
     "    elif \"input\" in state:",
     "        state[\"llm_response\"] = f\"Response to: {state['input']}\"",
     "    else:",
     "        state[\"llm_response\"] = \"No input provided\"",
     "    return state" >>

generate_chat_model_node_code(node_name, node_data) ==
  << "def " \o node_name \o "(state):",
     "    \"\"\"Process the state using a Chat Model.\"\"\"",
     "    # Chat Model implementation",
     "    # Model: , Temperature: 0.7",
     "    if \"messages\" in state and isinstance(state[\"messages\"], list):",
     "        # In a real implementation, this would call the Chat Model",
     "        state[\"chat_response\"] = f\"Response to messages: {len(state['messages'])} messages\"",
     "    elif \"input\" in state:",
     "        # Create a simple message and respond",
     "        state[\"chat_response\"] = f\"Response to: {state['input']}\"",
     "    else:",
     "        state[\"chat_response\"] = \"No input provided\"",
     "    return state" >>

generate_chain_node_code(node_name, node_data) ==
  << "def " \o node_name \o "(state):",
     "    \"\"\"Process the state through a chain.\"\"\"",
     "    # Chain implementation: " \o ClassType(node_data),
     "    if \"input\" in state:",
     "        # In a real implementation, this would process through the chain",
     "        state[\"chain_result\"] = f\"Chain processed: {state['input']}\"",
     "    return state" >>

generate_agent_node_code(node_name, node_data) ==
  << "def " \o node_name \o "(state):",
     "    \"\"\"Process the state using an agent.\"\"\"",
     "    # Agent implementation: " \o ClassType(node_data),
     "    if \"input\" in state:",
     "        # In a real implementation, this would use tools and reasoning",
     "        state[\"agent_result\"] = f\"Agent processed: {state['input']}\"",
     "        state[\"intermediate_steps\"] = [\"Step 1: Thinking\", \"Step 2: Acting\"]",
     "    return state" >>

generate_tool_node_code(node_name, node_data) ==
  << "def " \o node_name \o "(state):",
     "    \"\"\"Process the state using a tool.\"\"\"",
     "    # Tool implementation: " \o ClassType(node_data),
     "    if \"input\" in state:",
     "        # In a real implementation, this would execute the tool",
     "        state[\"tool_result\"] = f\"Tool executed on: {state['input']}\"",
     "    return state" >>

generate_memory_node_code(node_name, node_data) ==
  << "def " \o node_name \o "(state):",
     "    \"\"\"Process the state using memory.\"\"\"",
     "    # Memory implementation: " \o ClassType(node_data),
     "    if \"history\" not in state:",
     "        state[\"history\"] = []",
     "    if \"input\" in state and \"llm_response\" in state:",
     "        # Add the current exchange to history",
     "        state[\"history\"].append((state[\"input\"], state[\"llm_response\"]))",
     "    return state" >>

generate_prompt_node_code(node_name, node_data) ==
  << "def " \o node_name \o "(state):",
     "    \"\"\"Process the state by formatting a prompt template.\"\"\"",
     "    # Prompt template implementation",
     "    template = \"\"\"\"\"\"",
     "    # Format the template with state variables",
     "    formatted_prompt = template",
     "    # Extract variables from the template",
     "    import re",
     "    variables = re.findall(r'{([^{}]+)}', template)",
     "    # Replace variables with values from state",
     "    for var in variables:",
     "        var_clean = var.strip()",
     "        if var_clean in state:",
     "            formatted_prompt = formatted_prompt.replace('{{' + var + '}}', str(state[var_clean]))",
     "    state[\"prompt\"] = formatted_prompt",
     "    return state" >>

generate_retriever_node_code(node_name, node_data) ==
  << "def " \o node_name \o "(state):",
     "    \"\"\"Process the state by retrieving documents.\"\"\"",
     "    # Retriever implementation: " \o ClassType(node_data),
     "    if \"input\" in state:",
     "        # In a real implementation, this would retrieve documents",
     "        state[\"documents\"] = [",
     "            {\"content\": f\"Document 1 relevant to {state['input']}\", \"metadata\": {}},",
     "            {\"content\": f\"Document 2 relevant to {state['input']}\", \"metadata\": {}}",
     "        ]",
     "    return state" >>

generate_vectorstore_node_code(node_name, node_data) ==
  << "def " \o node_name \o "(state):",
     "    \"\"\"Process the state by searching a vector store.\"\"\"",
     "    # VectorStore implementation: " \o ClassType(node_data),
     "    if \"input\" in state:",
     "        # In a real implementation, this would search the vector store",
     "        state[\"search_results\"] = [",
     "            {\"content\": f\"Result 1 for {state['input']}\", \"metadata\": {}},",
     "            {\"content\": f\"Result 2 for {state['input']}\", \"metadata\": {}}",
     "        ]",
     "    return state" >>

generate_embedding_node_code(node_name, node_data) ==
  << "def " \o node_name \o "(state):",
     "    \"\"\"Process the state by generating embeddings.\"\"\"",
     "    # Embedding implementation: " \o ClassType(node_data),
     "    if \"input\" in state:",
     "        # In a real implementation, this would generate embeddings",
     "        state[\"embeddings\"] = [[0.1, 0.2, 0.3]]  # Mock embedding vector",
     "    return state" >>

generate_document_node_code(node_name, node_data) ==
  << "def " \o node_name \o "(state):",
     "    \"\"\"Process the state by loading documents.\"\"\"",
     "    # Document loader implementation: " \o ClassType(node_data),
     "    if \"file_path\" in state:",
     "        # In a real implementation, this would load a document",
     "        state[\"document_content\"] = f\"Content loaded from {state['file_path']}\"",
     "    return state" >>

generate_text_splitter_node_code(node_name, node_data) ==
  << "def " \o node_name \o "(state):",
     "    \"\"\"Process the state by splitting text into chunks.\"\"\"",
     "    # Text splitter implementation: " \o ClassType(node_data),
     "    # Chunk size: 1000",
     "    if \"input\" in state and isinstance(state[\"input\"], str):",
     "        # Simple splitting by paragraphs for demonstration",
     "        paragraphs = state[\"input\"].split(\"\\n\\n\")",
     "        state[\"chunks\"] = [p for p in paragraphs if p.strip()]",
     "    return state" >>

generate_utility_node_code(node_name, node_data) ==
  << "def " \o node_name \o "(state):",
     "    \"\"\"Process the state using a utility function.\"\"\"",
     "    # Utility implementation: " \o ClassType(node_data),
     "    if \"input\" in state:",
     "        state[\"processed_input\"] = state[\"input\"].upper()",
     "    return state" >>

generate_output_parser_node_code(node_name, node_data) ==
  << "def " \o node_name \o "(state):",
     "    \"\"\"Process the state by parsing structured output.\"\"\"",
     "    # Output Parser implementation: " \o ClassType(node_data),
     "    if \"input\" in state:",
     "        # In a real implementation, this would parse the input",
     "        try:",
     "            # Mock parsing - in reality this would use the specific parser logic",
     "            if \"json\" in \"" \o ClassType(node_data) \o "\".lower():",
     "                import json",
     "                # Try to parse as JSON if it looks like JSON",
     "                if state[\"input\"].strip().startswith('{') and state[\"input\"].strip().endswith('}'):",
     "                    state[\"parsed_output\"] = json.loads(state[\"input\"])",
     "                else:",
     "                    # Mock JSON structure",
     "                    state[\"parsed_output\"] = {",
     "                        \"result\": state[\"input\"],",
     "                        \"status\": \"success\"",
     "                    }",
     "            elif \"pydantic\" in \"" \o ClassType(node_data) \o "\".lower():",
     "                # Mock Pydantic parsing",
     "                state[\"parsed_output\"] = {",
     "                    \"content\": state[\"input\"],",
     "                    \"metadata\": {}",
     "                }",
     "            elif \"regex\" in \"" \o ClassType(node_data) \o "\".lower():",
     "                # Mock regex parsing",
     "                state[\"parsed_output\"] = {",
     "                    \"matched\": True,",
     "                    \"extracted\": state[\"input\"]",
     "                }",
     "            else:",
     "                # Generic structured output",
     "                state[\"parsed_output\"] = {",
     "                    \"output\": state[\"input\"]",
     "                }",
     "        except Exception as e:",
     "            state[\"parsed_output\"] = {",
     "                \"error\": str(e),",
     "                \"original_input\": state[\"input\"]",
     "            }",
     "    return state" >>

generate_router_node_code(node_name, node_data) ==
  << "def " \o node_name \o "(state):",
     "    \"\"\"Process the state by determining routing paths.\"\"\"",
     "    # Router implementation: " \o ClassType(node_data),
     "    if \"input\" in state:",
     "        # In a real implementation, this would determine the route based on input",
     "        # For demonstration, we'll use a simple length-based routing",
     "        input_text = state[\"input\"]",
     "        ",
     "        # Simple routing logic based on input characteristics",
     "        if \"?\" in input_text:",
     "            state[\"route\"] = \"question_route\"",
     "        elif len(input_text) < 20:",
     "            state[\"route\"] = \"short_input_route\"",
     "        elif any(keyword in input_text.lower() for keyword in [\"help\", \"support\", \"assist\"]):",
     "            state[\"route\"] = \"help_route\"",
     "        else:",
     "            state[\"route\"] = \"default_route\"",
     "            ",
     "        state[\"destination\"] = state[\"route\"]",
     "    return state" >>

generate_document_transformer_node_code(node_name, node_data) ==
  << "def " \o node_name \o "(state):",
     "    \"\"\"Process the state by transforming documents.\"\"\"",
     "    # Document Transformer implementation: " \o ClassType(node_data),
     "    if \"documents\" in state and isinstance(state[\"documents\"], list):",
     "        # In a real implementation, this would transform the documents",
     "        # For demonstration, we'll create a simple transformation",
     "        transformed_docs = []",
     "        for i, doc in enumerate(state[\"documents\"]):",
     "            # Create a transformed version of each document",
     "            if isinstance(doc, dict):",
     "                # If it's already a dict with content",
     "                transformed = {",
     "                    \"content\": f\"Transformed: {doc.get('content', 'No content')}\",",
     "                    \"metadata\": doc.get(\"metadata\", {}) | {\"transformed\": True, \"transformer\": \"" \o ClassType(node_data) \o "\"}",
     "                }",
     "            elif isinstance(doc, str):",
     "                # If it's just a string",
     "                transformed = {",
     "                    \"content\": f\"Transformed: {doc}\",",
     "                    \"metadata\": {\"transformed\": True, \"transformer\": \"" \o ClassType(node_data) \o "\"}",
     "                }",
     "            else:",
     "                # Try to handle other formats",
     "                transformed = {",
     "                    \"content\": f\"Transformed document {i}\",",
     "                    \"metadata\": {\"transformed\": True, \"transformer\": \"" \o ClassType(node_data) \o "\"}",
     "                }",
     "            transformed_docs.append(transformed)",
     "        ",
     "        state[\"transformed_documents\"] = transformed_docs",
     "    return state" >>

\* node_data.get("id", "").lower()
NodeIdLower(node_data) == Lower(IF "id" \in DOMAIN node_data THEN node_data["id"] ELSE "")

generate_custom_node_code(node_name, node_data) ==
  IF Contains(NodeIdLower(node_data), "chatinput") THEN
    << "def " \o node_name \o "(state):",
       "        \"\"\"Handle chat input from user.\"\"\"",
       "        if \"input\" in state:",
       "            state[\"messages\"] = [state[\"input\"]]",
       "            state[\"question\"] = state[\"input\"]",
       "        return state" >>
  ELSE IF Contains(NodeIdLower(node_data), "chatoutput") THEN
    << "def " \o node_name \o "(state):",
       "        \"\"\"Format chat output for user.\"\"\"",
       "        if \"response\" in state:",
       "            state[\"output\"] = state[\"response\"]",
       "        elif \"messages\" in state and state[\"messages\"]:",
       "            state[\"output\"] = state[\"messages\"][-1]",
       "        return state" >>
  ELSE IF Contains(NodeIdLower(node_data), "prompt") THEN
    << "def " \o node_name \o "(state):",
       "        \"\"\"Build prompt from context and question.\"\"\"",
       "        context = state.get(\"context\", \"\")",
       "        question = state.get(\"question\", \"\")",
       "        prompt = f\"Context: {context}\\n\\nQuestion: {question}\"",
       "        state[\"prompt\"] = prompt",
       "        return state" >>
  ELSE IF Contains(NodeIdLower(node_data), "languagemodel") \/ Contains(NodeIdLower(node_data), "llm") THEN
    << "def " \o node_name \o "(state):",
       "        \"\"\"Process with language model.\"\"\"",
       "        prompt = state.get(\"prompt\", state.get(\"input\", \"\"))",
       "        # Simulate LLM response",
       "        state[\"response\"] = f\"AI Response: {prompt}\"",
       "        return state" >>
  ELSE IF Contains(NodeIdLower(node_data), "embedding") THEN
    << "def " \o node_name \o "(state):",
       "        \"\"\"Generate embeddings for text.\"\"\"",
       "        text = state.get(\"input\", \"\")",
       "        # Simulate embedding generation",
       "        state[\"embeddings\"] = f\"embeddings_for_{text}\"",
       "        return state" >>
  ELSE IF Contains(NodeIdLower(node_data), "localdb") \/ Contains(NodeIdLower(node_data), "database") THEN
    << "def " \o node_name \o "(state):",
       "        \"\"\"Query local database/vector store.\"\"\"",
       "        query = state.get(\"question\", state.get(\"input\", \"\"))",
       "        # Simulate database query",
       "        state[\"documents\"] = [f\"doc1_for_{query}\", f\"doc2_for_{query}\"]",
       "        return state" >>
  ELSE IF Contains(NodeIdLower(node_data), "parser") THEN
    << "def " \o node_name \o "(state):",
       "        \"\"\"Parse and structure documents.\"\"\"",
       "        documents = state.get(\"documents\", [])",
       "        # Simulate parsing",
       "        state[\"context\"] = \" \".join(documents) if documents else \"\"",
       "        return state" >>
  ELSE IF Contains(NodeIdLower(node_data), "confluence") THEN
    << "def " \o node_name \o "(state):",
       "        \"\"\"Fetch data from Confluence.\"\"\"",
       "        # Simulate Confluence data fetch",
       "        state[\"raw_data\"] = \"confluence_data_content\"",
       "        return state" >>
  ELSE
    << "def " \o node_name \o "(state):",
       "        \"\"\"Custom node processing.\"\"\"",
       "        if \"input\" in state:",
       "            state[\"output\"] = f\"Processed: {state['input']}\"",
       "        return state" >>

(***************************************************************************)
(* Sequence helpers.                                                       *)
(***************************************************************************)

RECURSIVE Flatten(_)
\* the concatenation of a sequence of sequences
Flatten(seqs) == IF Len(seqs) = 0 THEN << >> ELSE Head(seqs) \o Flatten(Tail(seqs))

RECURSIVE SelectLines(_, _)
\* the elements of seq that satisfy P, in order
SelectLines(P(_), seq) ==
  IF Len(seq) = 0 THEN << >>
  ELSE (IF P(Head(seq)) THEN << Head(seq) >> ELSE << >>) \o SelectLines(P, Tail(seq))

\* the indices of seq whose element equals x, smallest first (0 if none)
FirstIndex(seq, x) ==
  IF \E k \in DOMAIN seq : seq[k] = x THEN SetMin({ k \in DOMAIN seq : seq[k] = x }) ELSE 0

RECURSIVE Dedup(_)
\* the distinct elements of seq in order of first occurrence (dict key order)
Dedup(seq) ==
  IF Len(seq) = 0 THEN << >>
  ELSE LET front == Dedup(SubSeq(seq, 1, Len(seq) - 1))
           last == seq[Len(seq)]
       IN IF FirstIndex(front, last) # 0 THEN front ELSE Append(front, last)

(***************************************************************************)
(* mapping.generate_node_code and code_generator.py.                       *)
(***************************************************************************)

\* CATEGORY_CODE_GENERATORS[category](node_name, node_data)
generate_node_code(node_name, node_data) ==
  LET category == get_node_category(NodeClassPath(node_data))
  IN CASE category = LLM -> generate_llm_node_code(node_name, node_data)
       [] category = CHAT_MODEL -> generate_chat_model_node_code(node_name, node_data)
       [] category = CHAIN -> generate_chain_node_code(node_name, node_data)
       [] category = AGENT -> generate_agent_node_code(node_name, node_data)
       [] category = TOOL -> generate_tool_node_code(node_name, node_data)
       [] category = MEMORY -> generate_memory_node_code(node_name, node_data)
       [] category = PROMPT -> generate_prompt_node_code(node_name, node_data)
       [] category = RETRIEVER -> generate_retriever_node_code(node_name, node_data)
       [] category = VECTORSTORE -> generate_vectorstore_node_code(node_name, node_data)
       [] category = EMBEDDING -> generate_embedding_node_code(node_name, node_data)
       [] category = DOCUMENT -> generate_document_node_code(node_name, node_data)
       [] category = TEXT_SPLITTER -> generate_text_splitter_node_code(node_name, node_data)
       [] category = UTILITY -> generate_utility_node_code(node_name, node_data)
       [] category = OUTPUT_PARSER -> generate_output_parser_node_code(node_name, node_data)
       [] category = ROUTER -> generate_router_node_code(node_name, node_data)
       [] category = DOCUMENT_TRANSFORMER -> generate_document_transformer_node_code(node_name, node_data)
       [] OTHER -> generate_custom_node_code(node_name, node_data)

generate_imports ==
  << "from langgraph.graph import StateGraph",
     "from typing import TypedDict, List, Dict, Any",
     "" >>

\* the annotation of one state field
FieldAnnotation(field_type) ==
  CASE field_type = "str" -> "str"
    [] field_type = "int" -> "int"
    [] field_type = "float" -> "float"
    [] field_type = "bool" -> "bool"
    [] field_type = "list" -> "List[Any]"
    [] field_type = "dict" -> "Dict[str, Any]"
    [] OTHER -> "Any"

\* state_fields is the ordered dict, a sequence of <<field, type>> pairs
generate_state_class(state_fields) ==
  << "class GraphState(TypedDict):" >>
    \o [k \in DOMAIN state_fields |->
          "    " \o state_fields[k][1] \o ": " \o FieldAnnotation(state_fields[k][2])]
    \o << "" >>

generate_function_header ==
  << "def create_graph():",
     "    # Define the graph with proper state schema",
     "    graph = StateGraph(GraphState)",
     "" >>

NotCloseParen(c) == c # ")"

\* r'def\s+(\w+)\s*\([^)]*\):' at index i
DefSignatureAt(s, i) ==
  LET a == SkipWs(s, i + 3)
      e == WordEnd(s, a)
      p == SkipWs(s, e + 1)
      r == RunEnd(NotCloseParen, s, p + 1)
  IN IF LitAt(s, i, "def") /\ a > i + 3 /\ e >= a /\ LitAt(s, p, "(") /\ LitAt(s, r + 1, "):")
       THEN Match(r + 2, SubSeq(s, a, e), "")
       ELSE NoMatch

\* r'def\s+(\w+)\s*\(' at index i
DefNameAt(s, i) ==
  LET a == SkipWs(s, i + 3)
      e == WordEnd(s, a)
      p == SkipWs(s, e + 1)
  IN IF LitAt(s, i, "def") /\ a > i + 3 /\ e >= a /\ LitAt(s, p, "(")
       THEN Match(p, SubSeq(s, a, e), "")
       ELSE NoMatch

\* the statement that registers a node function
AddNodeLine(node_name, func_name) ==
  "    graph.add_node(\"" \o node_name \o "\", " \o func_name \o ")"

IsNonBlank(line) == Strip(line) # ""

\* text.strip().split('\n') of a text given as its lines
StripSplit(text_lines) == SplitOn(Strip(JoinWith(text_lines, "\n")), "\n")

generate_node_function(node_name, node_data, has_node_mappings) ==
  LET \* the branch for a node that carries embedded code
      Embedded(func_match, src_lines) ==
        IF func_match.ok
          THEN [k \in DOMAIN src_lines |->
                  IF StartsWith(src_lines[k], "def ") THEN "    " \o src_lines[k]
                  ELSE "        " \o src_lines[k]]
               \o << AddNodeLine(node_name, func_match.g1) >>
          ELSE << "    def " \o node_name \o "(state):", "        # Custom code" >>
               \o [k \in DOMAIN src_lines |-> "        " \o src_lines[k]]
               \o << "        return state", AddNodeLine(node_name, node_name) >>
      Indented(lines, prefix) == [k \in DOMAIN lines |-> prefix \o Strip(lines[k])]
      \* the branch for a node whose category template is used
      Template(code_lines) ==
        ( IF StartsWith(Strip(code_lines[1]), "def ")
            THEN IF Search(DefNameAt, Strip(code_lines[1])).ok
                   THEN << "    def " \o node_name \o "(state):" >>
                          \o Indented(SelectLines(IsNonBlank, Tail(code_lines)), "        ")
                   ELSE Indented(SelectLines(IsNonBlank, code_lines), "    ")
            ELSE Indented(SelectLines(IsNonBlank, code_lines), "    ") )
        \o << AddNodeLine(node_name, node_name) >>
  IN ( IF "code" \in DOMAIN node_data THEN
         Embedded(Search(DefSignatureAt, node_data["code"]), SplitOn(node_data["code"], "\n"))
       ELSE IF has_node_mappings THEN
         Template(StripSplit(generate_node_code(node_name, node_data)))
       ELSE << "    def " \o node_name \o "(state):",
               "        # TODO: implement logic from class " \o NodeClassPath(node_data),
               "        return state",
               AddNodeLine(node_name, node_name) >> )
     \o << "" >>

generate_main_block ==
  << "if __name__ == \"__main__\":",
     "    app = create_graph()",
     "    result = app.invoke({\"input\": \"Test input\"})",
     "    print(result)" >>

generate_return_statement == << "", "    return graph.compile()", "" >>

(***************************************************************************)
(* Ordered dictionaries (Python dict): sequences of <<key, value>> pairs.  *)
(***************************************************************************)

DictKeys(d) == [k \in DOMAIN d |-> d[k][1]]
DictValues(d) == [k \in DOMAIN d |-> d[k][2]]
DictHas(d, key) == \E k \in DOMAIN d : d[k][1] = key
DictGet(d, key, default) ==
  IF DictHas(d, key) THEN d[CHOOSE k \in DOMAIN d : d[k][1] = key][2] ELSE default
\* d[key] = value: a new key goes last, an old key keeps its place
DictSet(d, key, value) ==
  IF DictHas(d, key)
    THEN [k \in DOMAIN d |-> IF d[k][1] = key THEN << key, value >> ELSE d[k]]
    ELSE Append(d, << key, value >>)

(***************************************************************************)
(* edge_handler.py: the edge section and the entry/exit declarations.      *)
(***************************************************************************)

\* "data" in e and "condition" in e["data"]
HasCondition(e) == "condition" \in DOMAIN e

\* node_names.get(node_id) inside an f-string
NameOf(node_names, node_id) == DictGet(node_names, node_id, "None")

AddEdgeLine(src, tgt) == "    graph.add_edge(\"" \o src \o "\", \"" \o tgt \o "\")"

\* f"{field}\s*==\s*[\"']([^\"']+)[\"']" at index i
RouteValueAt(field, s, i) ==
  LET p == SkipWs(s, i + Len(field))
      q == SkipWs(s, p + 2)
      r == RunEnd(NotQuote, s, q + 1)
  IN IF LitAt(s, i, field) /\ LitAt(s, p, "==") /\ q <= Len(s) /\ IsQuote(CharAt(s, q))
        /\ r >= q + 1 /\ r + 1 <= Len(s)
       THEN Match(r + 1, SubSeq(s, q + 1, r), "")
       ELSE NoMatch

RECURSIVE Routes(_, _, _)
\* the routes dictionary after the loop over the edges
Routes(conditional_edges, node_names, field) ==
  IF Len(conditional_edges) = 0 THEN << >>
  ELSE LET n == Len(conditional_edges)
           edge == conditional_edges[n]
           before == Routes(SubSeq(conditional_edges, 1, n - 1), node_names, field)
           value_match == Search(LAMBDA s, i : RouteValueAt(field, s, i), edge["condition"])
       IN IF value_match.ok
            THEN DictSet(before, value_match.g1, NameOf(node_names, edge["target"]))
            ELSE before

handle_simple_equality_conditions(conditional_edges, src, node_names, eq_field_matches, has_node_mappings) ==
  LET RouteLines(routes) ==
        [k \in DOMAIN routes |->
           "            \"" \o routes[k][1] \o "\": \"" \o routes[k][2] \o "\","]
      \* edge_condition holds the value of the last iteration of the loop
      Block(field, edge_condition) ==
        << "",
           "    # Conditional routing based on " \o field,
           "    graph.add_conditional_edges(",
           "        \"" \o src \o "\"," >>
        \o << IF has_node_mappings /\ Len(conditional_edges) > 0
                THEN "        " \o edge_condition \o ","
                ELSE "        lambda state: state.get(\"" \o field \o "\", \"\")," >>
        \o << "        {" >>
        \o RouteLines(Routes(conditional_edges, node_names, field))
        \o << "        }", "    )" >>
  IN Block(CHOOSE f \in eq_field_matches : TRUE,
           IF has_node_mappings /\ Len(conditional_edges) > 0
             THEN convert_edge_condition(conditional_edges[Len(conditional_edges)]["condition"])
             ELSE "")

RECURSIVE ReplaceWord(_, _, _)
\* re.sub(f"\\b{field}\\b", new, s) for a field made of word characters
ReplaceWord(s, field, new) ==
  LET hits == { i \in 1..Len(s) :
                  /\ LitAt(s, i, field)
                  /\ (i = 1 \/ ~IsWordChar(CharAt(s, i - 1)))
                  /\ (i + Len(field) > Len(s) \/ ~IsWordChar(CharAt(s, i + Len(field)))) }
  IN IF hits = {} THEN s
     ELSE SubSeq(s, 1, SetMin(hits) - 1) \o new
            \o ReplaceWord(SubSeq(s, SetMin(hits) + Len(field), Len(s)), field, new)

RECURSIVE ReplaceFields(_, _)
\* the loop "for field in all_fields" over the fields in the order given
ReplaceFields(condition, fields) ==
  IF Len(fields) = 0 THEN condition
  ELSE ReplaceFields(ReplaceWord(condition, Head(fields), "state.get('" \o Head(fields) \o "')"),
                     Tail(fields))

\* the sequences that list every element of S exactly once: the orders in
\* which iterating over a Python set of strings may yield its elements
SetOrders(S) ==
  { f \in [1..Cardinality(S) -> S] : \A x \in S : \E k \in 1..Cardinality(S) : f[k] = x }

\* the order that the order of all names induces on the names in S
InducedOrder(order, S) == SelectLines(LAMBDA x : x \in S, order)

\* order: the iteration order of the sets of this run (a sequence without
\* repetition that contains every element of the sets iterated)
handle_complex_conditions(conditional_edges, src, node_names, eq_field_matches, comp_field_matches, func_field_matches, has_node_mappings, order) ==
  LET all_fields == eq_field_matches \cup comp_field_matches \cup func_field_matches
      router_name == src \o "_router"
      Branch(i, cond) ==
        << (IF i = 1 THEN "        if " ELSE "        elif ") \o cond \o ":",
           "            return \"" \o NameOf(node_names, conditional_edges[i]["target"]) \o "\"" >>
      TargetBlock(target) ==
        << "    graph.add_conditional_edges(",
           "        \"" \o router_name \o "\",",
           "        lambda state: " \o router_name \o "(state),",
           "        {\"" \o target \o "\": \"" \o target \o "\"}",
           "    )" >>
      TargetBlocks(targets) == Flatten([k \in DOMAIN targets |-> TargetBlock(targets[k])])
  IN << "",
        "    # Complex conditional routing from " \o src,
        "    def " \o router_name \o "(state):" >>
     \o Flatten([i \in DOMAIN conditional_edges |->
          Branch(i, IF has_node_mappings
                      THEN ReplaceAll(convert_edge_condition(conditional_edges[i]["condition"]),
                                      LambdaPrefix, "")
                      ELSE ReplaceFields(conditional_edges[i]["condition"],
                                         InducedOrder(order, all_fields)))])
     \o ( IF Len(conditional_edges) > 0
            THEN << "        else:",
                    "            return \""
                      \o NameOf(node_names, conditional_edges[Len(conditional_edges)]["target"]) \o "\"" >>
            ELSE << >> )
     \o << "",
           "    graph.add_node(\"" \o router_name \o "\", " \o router_name \o ")",
           AddEdgeLine(src, router_name) >>
     \o TargetBlocks(InducedOrder(order, { NameOf(node_names, conditional_edges[k]["target"]) :
                                             k \in DOMAIN conditional_edges }))

\* a choice that never compiles a router: C12 tells it from the choice of
\* the source
NoRouterKind(conditions) ==
  IF Cardinality(extract_equality_fields(conditions)) = 1
       /\ extract_comparison_fields(conditions) = {}
       /\ extract_function_fields(conditions) = {}
       /\ ~HasLogicalOps(conditions)
    THEN "direct_table"
    ELSE "pass_through"

\* the three ways a source's guarded edges are compiled
RoutingKind(conditions) ==
  LET eq == extract_equality_fields(conditions)
      comp == extract_comparison_fields(conditions)
      func == extract_function_fields(conditions)
  IN IF Cardinality(eq) = 1 /\ comp = {} /\ func = {} /\ ~HasLogicalOps(conditions)
       THEN "direct_table"
     ELSE IF Cardinality(eq) > 0 \/ Cardinality(comp) > 0 \/ Cardinality(func) > 0
       THEN "router"
     ELSE "pass_through"

\* the condition strings of the guarded edges
Conditions(conditional_edges) ==
  [k \in DOMAIN conditional_edges |-> conditional_edges[k]["condition"]]

\* a compilation that emits every guarded edge as a bare transition: C14
\* tells it from the compilation of the source
bare_conditional_edges(conditional_edges, src, node_names, has_node_mappings, order) ==
  [k \in DOMAIN conditional_edges |->
     AddEdgeLine(NameOf(node_names, conditional_edges[k]["source"]),
                 NameOf(node_names, conditional_edges[k]["target"]))]

process_conditional_edges(conditional_edges, src, node_names, has_node_mappings, order) ==
  IF RoutingKind(Conditions(conditional_edges)) = "direct_table"
    THEN handle_simple_equality_conditions(
           conditional_edges, src, node_names,
           extract_equality_fields(Conditions(conditional_edges)), has_node_mappings)
  ELSE IF RoutingKind(Conditions(conditional_edges)) = "router"
    THEN handle_complex_conditions(
           conditional_edges, src, node_names,
           extract_equality_fields(Conditions(conditional_edges)),
           extract_comparison_fields(Conditions(conditional_edges)),
           extract_function_fields(Conditions(conditional_edges)),
           has_node_mappings, order)
  ELSE Flatten([k \in DOMAIN conditional_edges |->
         << "    # Condition: " \o conditional_edges[k]["condition"],
            AddEdgeLine(NameOf(node_names, conditional_edges[k]["source"]),
                        NameOf(node_names, conditional_edges[k]["target"])) >>])

\* edges_by_source: the sources in order of first appearance
EdgeSources(edges) == Dedup([k \in DOMAIN edges |-> edges[k]["source"]])
\* edges_by_source[source]
EdgesFrom(edges, source) == SelectLines(LAMBDA e : e["source"] = source, edges)

\* all edges of the source carry a guard
AllConditional(source_edges) ==
  LET conditional_edges == SelectLines(HasCondition, source_edges)
  IN Len(conditional_edges) > 0 /\ Len(conditional_edges) = Len(source_edges)

\* lines for one source that route its guarded edges also when another edge
\* of the source has no guard: C28 tells them from the lines of the source
guarded_edges_routed(source_edges, source, node_names, has_node_mappings, order) ==
  LET plain == SelectLines(LAMBDA e : ~HasCondition(e), source_edges)
  IN (IF Len(SelectLines(HasCondition, source_edges)) > 0
        THEN process_conditional_edges(SelectLines(HasCondition, source_edges),
                                       NameOf(node_names, source), node_names,
                                       has_node_mappings, order)
        ELSE << >>)
     \o [k \in DOMAIN plain |->
           AddEdgeLine(NameOf(node_names, plain[k]["source"]),
                       NameOf(node_names, plain[k]["target"]))]

\* the lines emitted for one source, given its edges
SourceLines(source_edges, source, node_names, has_node_mappings, order) ==
  IF AllConditional(source_edges)
    THEN process_conditional_edges(SelectLines(HasCondition, source_edges),
                                   NameOf(node_names, source), node_names,
                                   has_node_mappings, order)
    ELSE [k \in DOMAIN source_edges |->
            AddEdgeLine(NameOf(node_names, source_edges[k]["source"]),
                        NameOf(node_names, source_edges[k]["target"]))]

process_edges(edges, node_names, has_node_mappings, order) ==
  << "    # --- Edges ---" >>
    \o Flatten([k \in DOMAIN EdgeSources(edges) |->
                  SourceLines(EdgesFrom(edges, EdgeSources(edges)[k]), EdgeSources(edges)[k],
                              node_names, has_node_mappings, order)])

\* entry and finish points that both name the first node: C18 tells them
\* from the points of the source
finish_at_first_node(node_names) ==
  LET node_values == DictValues(node_names)
  IN IF Len(node_values) = 0 THEN << >>
     ELSE << "",
             "    # --- Entry and Finish ---",
             "    graph.add_edge(START, \"" \o node_values[1] \o "\")",
             "    graph.add_edge(\"" \o node_values[1] \o "\", END)" >>

generate_entry_finish_points(node_names) ==
  LET node_values == DictValues(node_names)
  IN IF Len(node_values) = 0 THEN << >>
     ELSE << "",
             "    # --- Entry and Finish ---",
             "    graph.add_edge(START, \"" \o node_values[1] \o "\")",
             "    graph.add_edge(\"" \o node_values[Len(node_values)] \o "\", END)" >>

(***************************************************************************)
(* parser.extract_state_fields: the inferred state schema.                 *)
(***************************************************************************)

NotNewline(c) == c # "\n"
NotDQuote(c) == c # "\""
NotSQuote(c) == c # "'"

\* \s*(.+?)(?:<one of stops>) from index from on, where stops may hold
\* single characters and "$" for the end of the line: the white space is
\* given back one character at a time until the lazy group can match
LazyValueAt(s, from, stops) ==
  LET w == SkipWs(s, from)
      Stops(t) == \/ (t + 1 <= Len(s) /\ CharAt(s, t + 1) \in stops)
                  \/ ("$" \in stops /\ (t = Len(s) \/ (t + 1 = Len(s) /\ CharAt(s, t + 1) = "\n")))
      Ends(v) == { t \in v..Len(s) : (\A k \in v..t : CharAt(s, k) # "\n") /\ Stops(t) }
      starts == { v \in from..w : v <= Len(s) /\ Ends(v) # {} }
  IN IF starts = {} THEN NoMatch
     ELSE LET v == SetMax(starts)
              t == SetMin(Ends(v))
          IN Match(IF t + 1 <= Len(s) /\ CharAt(s, t + 1) \in stops THEN t + 1 ELSE t,
                   SubSeq(s, v, t), "")

\* r'state\[Q([^Q]+)Q\]\s*=\s*(.+?)(?:\n|$)' at index i, Q the quote character
AssignmentAt(quote, s, i) ==
  LET open == "state[" \o quote
      r == RunEnd(LAMBDA c : c # quote, s, i + Len(open))
      p == SkipWs(s, r + 3)
      v == LazyValueAt(s, p + 1, {"\n", "$"})
  IN IF LitAt(s, i, open) /\ r >= i + Len(open) /\ LitAt(s, r + 1, quote \o "]")
        /\ LitAt(s, p, "=") /\ v.ok
       THEN Match(v.end, SubSeq(s, i + Len(open), r), v.g1)
       ELSE NoMatch

\* r'if\s+Q([^Q]+)Q\s+in\s+state' at index i
AccessAt(quote, s, i) ==
  LET a == SkipWs(s, i + 2)
      r == RunEnd(LAMBDA c : c # quote, s, a + 1)
      p == SkipWs(s, r + 2)
      q == SkipWs(s, p + 2)
  IN IF LitAt(s, i, "if") /\ a > i + 2 /\ LitAt(s, a, quote) /\ r >= a + 1
        /\ LitAt(s, r + 1, quote) /\ p > r + 2 /\ LitAt(s, p, "in") /\ q > p + 2
        /\ LitAt(s, q, "state")
       THEN Match(q + 4, SubSeq(s, a + 1, r), "")
       ELSE NoMatch

\* r'return\s+{\s*Q([^Q]+)Q\s*:\s*(.+?)(?:}|,)' at index i
ReturnFieldAt(quote, s, i) ==
  LET a == SkipWs(s, i + 6)
      b == SkipWs(s, a + 1)
      r == RunEnd(LAMBDA c : c # quote, s, b + 1)
      p == SkipWs(s, r + 2)
      v == LazyValueAt(s, p + 1, {"}", ","})
  IN IF LitAt(s, i, "return") /\ a > i + 6 /\ LitAt(s, a, "{") /\ LitAt(s, b, quote)
        /\ r >= b + 1 /\ LitAt(s, r + 1, quote) /\ LitAt(s, p, ":") /\ v.ok
       THEN Match(v.end, SubSeq(s, b + 1, r), v.g1)
       ELSE NoMatch

\* re.search(open + '.+' + close, value): an opening bracket, at least one
\* character other than a newline, a closing bracket
Bracketed(value, open, close) ==
  \E i, j \in 1..Len(value) :
    /\ j >= i + 2 /\ CharAt(value, i) = open /\ CharAt(value, j) = close
    /\ \A k \in (i + 1)..(j - 1) : CharAt(value, k) # "\n"

\* re.search(r'^\d+$', v)
AllDigits(v) ==
  LET t == IF EndsWith(v, "\n") THEN SubSeq(v, 1, Len(v) - 1) ELSE v
  IN Len(t) > 0 /\ \A k \in 1..Len(t) : IsDigit(CharAt(t, k))

\* re.search(r'^\d+\.\d+$', v)
DigitsDotDigits(v) ==
  LET t == IF EndsWith(v, "\n") THEN SubSeq(v, 1, Len(v) - 1) ELSE v
      e == RunEnd(IsDigit, t, 1)
  IN e >= 1 /\ LitAt(t, e + 1, ".") /\ RunEnd(IsDigit, t, e + 2) = Len(t) /\ Len(t) >= e + 2

\* the type inferred from the right-hand side of an assignment or of a
\* returned map entry
InferValueType(value) ==
  IF Contains(value, "[]") \/ Contains(value, "list()") \/ Bracketed(value, "[", "]") THEN "list"
  ELSE IF Contains(value, "{}") \/ Contains(value, "dict()") \/ Bracketed(value, "{", "}") THEN "dict"
  ELSE IF Contains(value, "True") \/ Contains(value, "False") THEN "bool"
  ELSE IF AllDigits(Strip(value)) THEN "int"
  ELSE IF DigitsDotDigits(Strip(value)) THEN "float"
  ELSE "str"

\* the type guessed for a field that is only tested for membership
\* (re.search(field + r"\['", code) is a substring test for a field made of
\* word characters)
InferAccessType(field, code) ==
  LET Has(t) == Contains(code, t)
      keyed == Has(field \o "['")
  IN IF Has(field \o ".append") \/ Has(field \o ".extend") \/ (Has(field \o "[") /\ ~keyed) THEN "list"
     ELSE IF Has(field \o ".get(") \/ (Has(field \o "[") /\ keyed) THEN "dict"
     ELSE IF Has(field \o " is True") \/ Has(field \o " is False") \/ Has("not " \o field) THEN "bool"
     ELSE IF Has(field \o " + ") \/ Has(field \o " - ") \/ Has(field \o " * ") \/ Has(field \o " / ") THEN "float"
     ELSE IF Has(field \o " += ") \/ Has(field \o " -= ") \/ Has("len(" \o field \o ")") THEN "int"
     ELSE "str"

\* an assignment that replaces the type of a field that is already there:
\* C15 tells it from the assignment of the source
AddOrReplace(state_fields, field, type) == DictSet(state_fields, field, type)

\* state_fields[field] = type unless the field is already there
AddIfAbsent(state_fields, field, type) ==
  IF DictHas(state_fields, field) THEN state_fields ELSE Append(state_fields, << field, type >>)

RECURSIVE AddValueFields(_, _)
\* the loops over field_assignments and over return_fields
AddValueFields(state_fields, matches) ==
  IF Len(matches) = 0 THEN state_fields
  ELSE AddValueFields(AddIfAbsent(state_fields, Head(matches).g1, InferValueType(Head(matches).g2)),
                      Tail(matches))

RECURSIVE AddAccessFields(_, _, _)
\* the loop over set(field_accesses), in the order the set yields them
AddAccessFields(state_fields, fields, code) ==
  IF Len(fields) = 0 THEN state_fields
  ELSE AddAccessFields(AddIfAbsent(state_fields, Head(fields), InferAccessType(Head(fields), code)),
                       Tail(fields), code)

\* field_accesses of one embedded code text
FieldAccesses(code) ==
  Group1s(FindAll(LAMBDA s, i : AccessAt("\"", s, i), code))
    \cup Group1s(FindAll(LAMBDA s, i : AccessAt("'", s, i), code))

\* the fields contributed by the embedded code of one node
CodeFields(state_fields, code, order) ==
  AddAccessFields(
    AddValueFields(
      AddValueFields(state_fields,
                     \* field_assignments
                     FindAll(LAMBDA s, i : AssignmentAt("\"", s, i), code)
                       \o FindAll(LAMBDA s, i : AssignmentAt("'", s, i), code)),
      \* return_fields
      FindAll(LAMBDA s, i : ReturnFieldAt("\"", s, i), code)
        \o FindAll(LAMBDA s, i : ReturnFieldAt("'", s, i), code)),
    InducedOrder(order, FieldAccesses(code)), code)

\* the fields contributed by the class_path of one node
ClassPathFields(state_fields, class_path) ==
  LET Has(t) == Contains(class_path, t)
      s1 == IF Has("LLM") THEN DictSet(state_fields, "llm_response", "str") ELSE state_fields
  IN IF Has("TextSplitter") \/ Has("Splitter") THEN DictSet(s1, "chunks", "list")
     ELSE IF Has("Retriever") \/ Has("VectorStore") THEN DictSet(s1, "documents", "list")
     ELSE IF Has("Memory") THEN DictSet(s1, "history", "list")
     ELSE IF Has("Chain") THEN DictSet(s1, "chain_result", "str")
     ELSE IF Has("Tool") THEN DictSet(s1, "tool_result", "str")
     ELSE IF Has("Agent")
       THEN DictSet(DictSet(s1, "agent_result", "str"), "intermediate_steps", "list")
     ELSE s1

\* the type inferred from the literal an edge guard compares a field with
InferGuardType(value) ==
  IF Lower(value) \in {"true", "false"} THEN "bool"
  ELSE IF Len(value) > 0 /\ (\A k \in 1..Len(value) : IsDigit(CharAt(value, k))) THEN "int"
  ELSE IF DigitsDotDigits(value) THEN "float"
  ELSE "str"

RECURSIVE AddGuardFields(_, _)
AddGuardFields(state_fields, matches) ==
  IF Len(matches) = 0 THEN state_fields
  ELSE AddGuardFields(AddIfAbsent(state_fields, Head(matches).g1, InferGuardType(Head(matches).g2)),
                      Tail(matches))

RECURSIVE NodeFields(_, _, _)
\* the loop over the nodes
NodeFields(state_fields, nodes, order) ==
  IF Len(nodes) = 0 THEN state_fields
  ELSE NodeFields(ClassPathFields(IF "code" \in DOMAIN Head(nodes)
                                    THEN CodeFields(state_fields, Head(nodes)["code"], order)
                                    ELSE state_fields,
                                  NodeClassPath(Head(nodes))),
                  Tail(nodes), order)

RECURSIVE EdgeFields(_, _)
\* the loop over the edges
EdgeFields(state_fields, edges) ==
  IF Len(edges) = 0 THEN state_fields
  ELSE EdgeFields(IF HasCondition(Head(edges))
                    THEN AddGuardFields(state_fields, FindAll(StringEqAt, Head(edges)["condition"]))
                    ELSE state_fields,
                  Tail(edges))

\* the fields every schema starts with
SeedFields == << << "input", "str" >>, << "output", "dict" >> >>

\* nodes: the node dictionary's values in order; order: the iteration order
\* of the sets of field names of this run
extract_state_fields(nodes, edges, order) ==
  EdgeFields(NodeFields(SeedFields, nodes, order), edges)

(***************************************************************************)
(* validator.validate_python_syntax: ast.parse accepts the text.  The      *)
(* model checks the block structure that ast.parse enforces on the lines   *)
(* of an emitted program: indentation opens after a line ending in ":",    *)
(* closes onto an enclosing level, and elif/else continue an if block.     *)
(***************************************************************************)

\* the number of leading blanks of a line
Indent(line) == RunEnd(LAMBDA c : c = " ", line, 1)

\* the number of characters of the line that are in chars
CountChars(line, chars) == Cardinality({ i \in 1..Len(line) : CharAt(line, i) \in chars })

\* "f @@ << >>" is the function f; it makes TLC tabulate f once instead of
\* computing f[k] anew at each use.
validate_python_syntax(code) ==
  LET n == Len(code)
      text == [k \in 1..n |-> Strip(code[k])] @@ << >>
      ind == [k \in 1..n |-> Indent(code[k])] @@ << >>
      net == [k \in 1..n |-> CountChars(code[k], {"(", "[", "{"}) - CountChars(code[k], {")", "]", "}"})] @@ << >>
      \* the bracket depth at the start of line k
      depth == [k \in 1..n |->
                 Cardinality({ p \in (1..n) \X (1..8) : p[1] < k /\ p[2] <= net[p[1]] })
                 - Cardinality({ p \in (1..n) \X (1..8) : p[1] < k /\ p[2] <= 0 - net[p[1]] })] @@ << >>
      \* the lines that start a logical line
      logical == { k \in 1..n : text[k] # "" /\ ~StartsWith(text[k], "#") /\ depth[k] = 0 }
      \* the line on which the logical line that starts at k ends
      last == [k \in 1..n |-> SetMin({ j \in k..n : depth[j] + net[j] <= 0 } \cup {n})] @@ << >>
      opener == [k \in 1..n |-> EndsWith(text[last[k]], ":")] @@ << >>
      next == [k \in 1..n |-> IF \E j \in logical : j > k
                                THEN SetMin({ j \in logical : j > k }) ELSE 0] @@ << >>
      \* indentation d is an enclosing level at line a
      OnStack(d, a) ==
        \E c \in logical : c <= a /\ ind[c] = d /\ \A e \in logical : (c < e /\ e <= a) => ind[e] >= d
      \* the header that an elif/else at line k continues
      Header(k) ==
        LET before == { c \in logical : c < k /\ ind[c] = ind[k]
                          /\ \A e \in logical : (c < e /\ e < k) => ind[e] > ind[k] }
        IN IF before = {} THEN 0 ELSE SetMax(before)
      Continues(k) ==
        IF StartsWith(text[k], "elif ") \/ text[k] = "else:"
          THEN Header(k) # 0 /\ opener[Header(k)]
               /\ (StartsWith(text[Header(k)], "if ") \/ StartsWith(text[Header(k)], "elif ")
                   \/ (text[k] = "else:" /\ (StartsWith(text[Header(k)], "for ")
                                             \/ StartsWith(text[Header(k)], "while ")
                                             \/ StartsWith(text[Header(k)], "except")
                                             \/ text[Header(k)] = "try:")))
          ELSE TRUE
  IN /\ \A k \in 1..n : depth[k] >= 0 /\ net[k] <= 8 /\ net[k] >= 0 - 8
     /\ (n > 0 => depth[n] + net[n] = 0)
     /\ (logical # {} => ind[SetMin(logical)] = 0)
     /\ \A k \in logical :
          /\ Continues(k)
          /\ IF next[k] = 0 THEN ~opener[k]
             ELSE IF opener[k] THEN ind[next[k]] > ind[k]
             ELSE ind[next[k]] <= ind[k] /\ OnStack(ind[next[k]], k)

(***************************************************************************)
(* Exceptions: a value is returned as [ok |-> TRUE, value |-> v], a raise  *)
(* as [ok |-> FALSE, exc |-> [type, msg], cause |-> the first message].    *)
(***************************************************************************)

Return(v) == [ok |-> TRUE, value |-> v]
Raise(type, msg) == [ok |-> FALSE, exc |-> [type |-> type, msg |-> msg], cause |-> msg]
\* "except Exception as e: raise type(prefix + str(e))"
Rewrap(r, type, prefix) ==
  IF r.ok THEN r
  ELSE [ok |-> FALSE, exc |-> [type |-> type, msg |-> prefix \o r.exc.msg], cause |-> r.cause]

(***************************************************************************)
(* parser.load_langflow_json and parser.extract_nodes_and_edges.           *)
(***************************************************************************)

JsonPath == "flow.json"
\* the message of json.JSONDecodeError for the malformed document
DecodeErrorMsg == "Expecting property name enclosed in double quotes: line 1 column 2 (char 1)"

\* a load that does not require the nodes field: C8 tells it from the load
\* of the source
load_without_nodes_check(json_path, file) ==
  IF file.kind = "malformed"
    THEN Raise("LangFlowParsingError", "Invalid JSON syntax: " \o DecodeErrorMsg)
  ELSE Rewrap(
         IF file.kind = "missing"
           THEN Raise("LangFlowParsingError", "File not found: " \o json_path)
         ELSE IF file.kind # "object"
           THEN Raise("LangFlowParsingError", "Invalid JSON format: root must be an object")
         ELSE Return(file.data),
         "LangFlowParsingError", "Error loading LangFlow JSON: ")

\* file: what is stored at the path
\*   [kind |-> "missing"]                       no such file
\*   [kind |-> "malformed"]                     not JSON
\*   [kind |-> "array"]                         JSON whose root is a list
\*   [kind |-> "object", data |-> d]            JSON object d
load_langflow_json(json_path, file) ==
  IF file.kind = "malformed"
    THEN Raise("LangFlowParsingError", "Invalid JSON syntax: " \o DecodeErrorMsg)
  ELSE Rewrap(
         IF file.kind = "missing"
           THEN Raise("LangFlowParsingError", "File not found: " \o json_path)
         ELSE IF file.kind # "object"
           THEN Raise("LangFlowParsingError", "Invalid JSON format: root must be an object")
         ELSE IF "nodes" \notin DOMAIN file.data
           THEN Raise("LangFlowParsingError", "Invalid LangFlow JSON: 'nodes' field is required")
         ELSE Return(file.data),
         "LangFlowParsingError", "Error loading LangFlow JSON: ")

\* {node["id"]: node for node in node_list}: the values in key order
NodesDict(node_list) ==
  LET ids == Dedup([k \in DOMAIN node_list |-> node_list[k]["id"]])
  IN [k \in DOMAIN ids |->
        node_list[SetMax({ j \in DOMAIN node_list : node_list[j]["id"] = ids[k] })]]

NodeIdSet(nodes) == { nodes[k]["id"] : k \in DOMAIN nodes }

\* a validation loop that reads the target of an edge before its source: C2
\* tells it from the loop of the source
EndpointsTargetFirst(edges) ==
  [k \in 1..(2 * Len(edges)) |->
     [edge |-> (k + 1) \div 2, key |-> IF k % 2 = 1 THEN "target" ELSE "source"]]

\* the endpoints of the edges in the order the validation loop reads them
Endpoints(edges) ==
  [k \in 1..(2 * Len(edges)) |->
     [edge |-> (k + 1) \div 2, key |-> IF k % 2 = 1 THEN "source" ELSE "target"]]

\* the validation loop: the outcome at the first endpoint that fails
ValidateEdges(nodes, edges) ==
  LET eps == Endpoints(edges)
      Bad(k) == \/ eps[k].key \notin DOMAIN edges[eps[k].edge]
                \/ edges[eps[k].edge][eps[k].key] \notin NodeIdSet(nodes)
      bad == { k \in DOMAIN eps : Bad(k) }
  IN IF bad = {} THEN Return(TRUE)
     ELSE LET k == SetMin(bad)
              edge == edges[eps[k].edge]
          IN IF eps[k].key \notin DOMAIN edge
               THEN Raise("KeyError", "'" \o eps[k].key \o "'")
               ELSE Raise("LangFlowParsingError",
                          "Invalid edge: " \o eps[k].key \o " node '" \o edge[eps[k].key]
                            \o "' not found")

\* order: the iteration order of the sets of field names of this run
extract_nodes_and_edges(data, order) ==
  LET node_list == data["nodes"]
      edges == IF "edges" \in DOMAIN data THEN data["edges"] ELSE << >>
      r == IF \E k \in DOMAIN node_list : "id" \notin DOMAIN node_list[k]
             THEN Raise("KeyError", "'id'")
             ELSE ValidateEdges(NodesDict(node_list), edges)
  IN IF r.ok
       THEN Return([nodes |-> NodesDict(node_list), edges |-> edges,
                    state_fields |-> extract_state_fields(NodesDict(node_list), edges, order)])
     ELSE IF r.exc.type = "KeyError"
       THEN Rewrap(r, "LangFlowParsingError", "Invalid node/edge structure: ")
     ELSE Rewrap(r, "LangFlowParsingError", "Error extracting nodes and edges: ")

(***************************************************************************)
(* converter.generate_langgraph_code.                                      *)
(***************************************************************************)

\* whether "from langflow2langgraph.mapping import ..." succeeds
HAS_NODE_MAPPINGS == TRUE

RECURSIVE Underscored(_)
\* ''.join(c if c.isalnum() else '_' for c in label)
Underscored(label) ==
  IF label = "" THEN ""
  ELSE (IF IsAlnum(Head(label)) THEN Head(label) ELSE "_") \o Underscored(Tail(label))

\* node.get("data", {}).get("label", f"Node_{node_id}")
NodeLabel(node) == IF "label" \in DOMAIN node THEN node["label"] ELSE "Node_" \o node["id"]

\* the clean label of a node with a non-empty label
CleanLabel(node) ==
  LET clean_label == Lower(Underscored(NodeLabel(node)))
  IN IF IsDigit(Head(clean_label)) THEN "f_" \o clean_label ELSE clean_label

\* the node_names dictionary
NodeNames(nodes) == [k \in DOMAIN nodes |-> << nodes[k]["id"], CleanLabel(nodes[k]) >>]

\* the names whose iteration order the router blocks depend on
RouterTargets(nodes, edges) ==
  LET node_names == NodeNames(nodes)
      sources == EdgeSources(edges)
      Routed(source) ==
        /\ AllConditional(EdgesFrom(edges, source))
        /\ RoutingKind([k \in DOMAIN EdgesFrom(edges, source) |->
                          EdgesFrom(edges, source)[k]["condition"]]) = "router"
  IN { NameOf(node_names, edges[k]["target"]) :
         k \in { j \in DOMAIN edges : Routed(edges[j]["source"]) } }

\* order: the iteration order of the sets of node names of this run
generate_langgraph_code(nodes, edges, state_fields, order) ==
  Rewrap(
    IF \E k \in DOMAIN nodes : NodeLabel(nodes[k]) = ""
      THEN Raise("IndexError", "string index out of range")
      ELSE LET node_names == NodeNames(nodes)
           IN Return(generate_imports
                     \o generate_state_class(state_fields)
                     \o generate_function_header
                     \o Flatten([k \in DOMAIN nodes |->
                          generate_node_function(node_names[k][2], nodes[k], HAS_NODE_MAPPINGS)])
                     \o process_edges(edges, node_names, HAS_NODE_MAPPINGS, order)
                     \o generate_entry_finish_points(node_names)
                     \o generate_return_statement
                     \o generate_main_block),
    "LangGraphConversionError", "Error generating code: ")

(***************************************************************************)
(* validator.fix_common_issues: the repair.  The program is cut into       *)
(* sections and written again from them.                                   *)
(***************************************************************************)

\* the elements of seq at the indices idx, in order
SubseqAt(seq, idx) ==
  [j \in 1..Cardinality(idx) |->
     seq[CHOOSE k \in idx : Cardinality({ m \in idx : m <= k }) = j]]

\* the stripped lines that the section loop does not skip
RepairLines(code) ==
  LET stripped == [k \in DOMAIN code |-> Strip(code[k])]
  IN SubseqAt(stripped, { k \in DOMAIN stripped : stripped[k] # "" })

IsImportLine(line) == StartsWith(line, "import ") \/ StartsWith(line, "from ")

\* the section a line switches to, "" if it switches to none
RepairSetter(line) ==
  IF IsImportLine(line) THEN ""
  ELSE IF StartsWith(line, "class GraphState") THEN "class_def"
  ELSE IF StartsWith(line, "def create_graph") THEN "functions"
  ELSE IF StartsWith(line, "# --- Edges ---") THEN "edges"
  ELSE IF StartsWith(line, "# --- Entry and Finish ---") THEN "entry_finish"
  ELSE IF StartsWith(line, "return graph.compile") THEN "return"
  ELSE IF StartsWith(line, "if __name__ ==") THEN "main"
  ELSE ""

\* current_section when line i is read
SectionAt(L, i) ==
  LET setters == { j \in 1..(i - 1) : RepairSetter(L[j]) # "" }
  IN IF setters = {} THEN "imports" ELSE RepairSetter(L[SetMax(setters)])

\* line i starts a new function
IsDefLine(L, i) ==
  /\ ~IsImportLine(L[i])
  /\ RepairSetter(L[i]) = ""
  /\ StartsWith(L[i], "def ")
  /\ Contains(L[i], "(state)")
  /\ SectionAt(L, i) = "functions"

\* line i reaches the final else branch of the section loop
IsOtherLine(L, i) == ~IsImportLine(L[i]) /\ RepairSetter(L[i]) = "" /\ ~IsDefLine(L, i)

\* line.split('def ')[1].split('(')[0].strip()
FunctionNameOf(line) == Strip(SplitOn(SplitOn(line, "def ")[2], "(")[1])

\* the line at which the function that starts at line d is saved
\* (the next function or the edge marker), Len(L) + 1 if there is none
CloseOf(L, d) ==
  LET c == { j \in (d + 1)..Len(L) : IsDefLine(L, j) \/ StartsWith(L[j], "# --- Edges ---") }
  IN IF c = {} THEN Len(L) + 1 ELSE SetMin(c)

\* the indices of function_lines of the function that starts at line d
FunctionLineIndices(L, d) ==
  IF FunctionNameOf(L[d]) = "" THEN {}
  ELSE { i \in (d + 1)..(CloseOf(L, d) - 1) : IsOtherLine(L, i) /\ SectionAt(L, i) = "functions" }

\* sections['functions']: the pairs <<name, lines>>
RepairFunctions(L) ==
  LET saved == { d \in DOMAIN L :
                   /\ IsDefLine(L, d)
                   /\ FunctionNameOf(L[d]) # ""
                   /\ (CloseOf(L, d) <= Len(L) \/ FunctionLineIndices(L, d) # {}) }
      defs == SubseqAt([k \in DOMAIN L |-> k], saved)
  IN [k \in DOMAIN defs |->
        << FunctionNameOf(L[defs[k]]), SubseqAt(L, FunctionLineIndices(L, defs[k])) >>]

\* the other lines read in the given section, with the lines that open it
RepairSection(L, section, opener) ==
  SubseqAt(L, { i \in DOMAIN L :
                  \/ (opener # "" /\ ~IsImportLine(L[i]) /\ StartsWith(L[i], opener))
                  \/ (IsOtherLine(L, i) /\ SectionAt(L, i) = section) })

\* r'graph\.add_node\("([^"]+)",\s*([^\)]+)\)' at index i
AddNodeCallAt(s, i) ==
  LET a == i + 16
      e == RunEnd(NotDQuote, s, a)
      r == RunEnd(NotCloseParen, s, e + 3)
  IN IF LitAt(s, i, "graph.add_node(\"") /\ e >= a /\ LitAt(s, e + 1, "\",")
          /\ r >= e + 3 /\ LitAt(s, r + 1, ")")
       THEN Match(r + 1, SubSeq(s, a, e), SubSeq(s, e + 3, r))
       ELSE NoMatch

RECURSIVE RecordRegistrations(_, _)
\* node_name_mapping after the section loop has read the given lines
RecordRegistrations(mapping, reg_lines) ==
  IF Len(reg_lines) = 0 THEN mapping
  ELSE LET node_match == Search(AddNodeCallAt, Head(reg_lines))
       IN RecordRegistrations(
            IF node_match.ok THEN DictSet(mapping, node_match.g1, Strip(node_match.g2))
            ELSE mapping,
            Tail(reg_lines))

\* x in y or y in x
Similar(x, y) == Contains(y, x) \/ Contains(x, y)

RECURSIVE AddFunctionNames(_, _)
\* node_name_mapping after the function names have been added
AddFunctionNames(mapping, names) ==
  IF Len(names) = 0 THEN mapping
  ELSE LET func_name == Head(names)
           similar == { k \in DOMAIN mapping : Similar(mapping[k][1], func_name) }
       IN AddFunctionNames(
            IF func_name \in Range(DictValues(mapping)) THEN mapping
            ELSE IF similar # {} THEN DictSet(mapping, mapping[SetMin(similar)][1], func_name)
            ELSE DictSet(mapping, func_name, func_name),
            Tail(names))

\* r'"([^"]+)"' at index i
DQNameAt(s, i) ==
  LET e == RunEnd(NotDQuote, s, i + 1)
  IN IF LitAt(s, i, "\"") /\ e >= i + 1 /\ LitAt(s, e + 1, "\"")
       THEN Match(e + 1, SubSeq(s, i + 1, e), "")
       ELSE NoMatch

DQuoted(name) == "\"" \o name \o "\""

RECURSIVE ReplaceNames(_, _, _, _)
\* the line after the loop "for old_name in node_names".  A name the loop
\* adds to node_name_mapping is mapped to the function name the search
\* finds for it, so the additions change no later replacement.
ReplaceNames(line, old_names, function_names, mapping) ==
  IF Len(old_names) = 0 THEN line
  ELSE LET old_name == Head(old_names)
           similar == { k \in DOMAIN function_names : Similar(old_name, function_names[k]) }
       IN ReplaceNames(
            IF old_name \in Range(function_names) THEN line
            ELSE IF DictHas(mapping, old_name)
              THEN ReplaceAll(line, DQuoted(old_name), DQuoted(DictGet(mapping, old_name, "")))
            ELSE IF similar # {}
              THEN ReplaceAll(line, DQuoted(old_name), DQuoted(function_names[SetMin(similar)]))
            ELSE line,
            Tail(old_names), function_names, mapping)

FixNodeNames(line, function_names, mapping) ==
  ReplaceNames(line, [k \in DOMAIN FindAll(DQNameAt, line) |-> FindAll(DQNameAt, line)[k].g1],
               function_names, mapping)

IsBlockLine(line) ==
  \/ StartsWith(line, "if ") \/ StartsWith(line, "for ")
  \/ StartsWith(line, "while ") \/ StartsWith(line, "try:")
  \/ StartsWith(line, "elif ") \/ StartsWith(line, "else:")
  \/ StartsWith(line, "except ") \/ StartsWith(line, "finally:")

IsTripleQuoteStart(line) == StartsWith(line, "\"\"\"") \/ StartsWith(line, "'''")
IsTripleQuoteEnd(line) == EndsWith(line, "\"\"\"") \/ EndsWith(line, "'''")

\* the lines written for one function.  No line of func_lines is a
\* "def ...(state):" line, because such a line starts a new function in
\* the section loop, so is_generated is false for every function.
RepairFunction(func_name, func_lines) ==
  LET clean_func_lines ==
        SubseqAt(func_lines, { k \in DOMAIN func_lines : ~Contains(func_lines[k], "graph.add_node") })
      n == Len(clean_func_lines)
      has_docstring == n > 0 /\ IsTripleQuoteStart(clean_func_lines[1])
      closers == { k \in 2..n : IsTripleQuoteEnd(clean_func_lines[k]) }
      \* the number of lines of the docstring
      start_idx == IF has_docstring /\ closers # {} THEN SetMin(closers) ELSE 0
      current_indent(k) ==
        IF \E j \in (start_idx + 1)..(k - 1) : IsBlockLine(clean_func_lines[j]) THEN "    " ELSE ""
      BodyLine(k) ==
        LET line == clean_func_lines[k]
        IN IF IsBlockLine(line) \/ StartsWith(line, "return ") THEN "        " \o line
           ELSE IF k - 1 >= start_idx + 1 /\ EndsWith(clean_func_lines[k - 1], ":")
             THEN "            " \o line
           ELSE "        " \o current_indent(k) \o line
  IN << "    def " \o func_name \o "(state):" >>
     \o ( IF n = 0 THEN << "        # Implementation for this node", "        return state" >>
          ELSE ( IF has_docstring
                   THEN [k \in 1..start_idx |-> "        " \o clean_func_lines[k]]
                   ELSE << "        \"\"\"Process the state in this node.\"\"\"" >> )
               \o [k \in 1..(n - start_idx) |-> BodyLine(start_idx + k)] )
     \o ( IF \E k \in DOMAIN func_lines :
               Contains(func_lines[k], "graph.add_node(\"" \o func_name \o "\"")
            THEN << >>
            ELSE << "    graph.add_node(\"" \o func_name \o "\", " \o func_name \o ")" >> )
     \o << "" >>

IsGraphCall(line) ==
  \/ Contains(line, "graph.add_edge") \/ Contains(line, "graph.add_conditional_edges")
  \/ Contains(line, "graph.set_entry_point") \/ Contains(line, "graph.set_finish_point")

RECURSIVE InConditionalBlock(_, _)
\* line i of the edge section is read by the inner loop of a
\* graph.add_conditional_edges call
InConditionalBlock(edge_lines, i) ==
  /\ i > 1
  /\ IF InConditionalBlock(edge_lines, i - 1)
       THEN ~EndsWith(edge_lines[i - 1], ")")
       ELSE StartsWith(edge_lines[i - 1], "graph.add_conditional_edges")

RepairEdges(edge_lines, function_names, mapping) ==
  [i \in DOMAIN edge_lines |->
     "    " \o ( IF InConditionalBlock(edge_lines, i) \/ IsGraphCall(edge_lines[i])
                   THEN FixNodeNames(edge_lines[i], function_names, mapping)
                   ELSE edge_lines[i] )]

RepairEntryFinish(entry_lines, function_names, mapping) ==
  IF Len(entry_lines) > 0
    THEN LET kept == SubseqAt(entry_lines,
                       { k \in DOMAIN entry_lines : StartsWith(entry_lines[k], "graph.set_") })
         IN [k \in DOMAIN kept |-> "    " \o FixNodeNames(kept[k], function_names, mapping)]
  ELSE IF Len(function_names) > 0
    THEN << "    graph.set_entry_point(\"" \o function_names[1] \o "\")",
            "    graph.set_finish_point(\"" \o function_names[Len(function_names)] \o "\")" >>
  ELSE << "    graph.set_entry_point(\"process_input\")",
          "    graph.set_finish_point(\"format_output\")" >>

fix_common_issues(code) ==
  LET \* the text written from the sections
      Rebuild(imports, class_def, functions, edges, entry_finish, main,
              function_names, node_name_mapping) ==
        imports
        \o << "" >>
        \o [k \in DOMAIN class_def |-> IF k = 1 THEN class_def[k] ELSE "    " \o class_def[k]]
        \o << "",
              "def create_graph():",
              "    \"\"\"Create and configure the LangGraph.\"\"\"",
              "    # Initialize the graph",
              "    graph = StateGraph(GraphState)",
              "",
              "    # --- Node Functions ---" >>
        \o Flatten([k \in DOMAIN functions |-> RepairFunction(functions[k][1], functions[k][2])])
        \o << "    # --- Edges ---" >>
        \o RepairEdges(edges, function_names, node_name_mapping)
        \o << "", "    # --- Entry and Finish ---" >>
        \o RepairEntryFinish(entry_finish, function_names, node_name_mapping)
        \o << "", "    return graph.compile()", "", "if __name__ == \"__main__\":" >>
        \o ( IF Len(main) > 1
               THEN [k \in 1..(Len(main) - 1) |-> "    " \o main[k + 1]]
               ELSE << "    app = create_graph()",
                       "    result = app.invoke({\"input\": \"Test input\"})",
                       "    print(result)" >> )
      \* the lines of the functions section that register a node
      RegLines(L) ==
        SelectLines(LAMBDA l : Contains(l, "graph.add_node"),
                    SubseqAt(L, UNION { FunctionLineIndices(L, d) :
                                          d \in { j \in DOMAIN L : IsDefLine(L, j) } }))
      Sections(L, functions, function_names) ==
        Rebuild(SubseqAt(L, { i \in DOMAIN L : IsImportLine(L[i]) }),
                RepairSection(L, "class_def", "class GraphState"),
                functions,
                RepairSection(L, "edges", ""),
                RepairSection(L, "entry_finish", ""),
                RepairSection(L, "main", "if __name__ =="),
                function_names,
                AddFunctionNames(RecordRegistrations(<< >>, RegLines(L)), function_names))
      Functions(L, functions) ==
        Sections(L, functions, [k \in DOMAIN functions |-> functions[k][1]])
      Lines(L) == Functions(L, RepairFunctions(L))
  IN Lines(RepairLines(code))

(***************************************************************************)
(* converter.convert_langflow_to_langgraph as a state machine: one call,   *)
(* from its arguments to the value it returns or the error it raises.      *)
(***************************************************************************)

VARIABLES
  pc,              \* the position of the call
  source_file,     \* what is stored at json_path
  output_path,     \* the output_path argument: [some |-> FALSE] is None
  validate,        \* the validate argument
  data,            \* the loaded document
  nodes,           \* the node dictionary's values, in key order
  edges,           \* the edge list
  state_fields,    \* the inferred state schema
  langgraph_code,  \* the program text, as its lines
  files,           \* the output files: path -> lines
  result,          \* what the call has returned or raised
  cause,           \* the message of the exception first raised in the call
  repair_calls,    \* the calls of fix_common_issues made by the call
  validate_calls,  \* the calls of validate_code made by the call
  class_path,      \* the argument of get_node_category
  category,        \* what get_node_category returned
  second_run,      \* what the same step yields in a second run of the program
  fixed_code,      \* what fix_common_issues returned
  syntax_check,    \* what validate_python_syntax returned
  guard_parts,     \* the connective and the operands of the guard to rewrite
  lambda_text      \* what convert_edge_condition returned

vars == << pc, source_file, output_path, validate, data, nodes, edges, state_fields,
           langgraph_code, files, result, cause, repair_calls, validate_calls,
           class_path, category, second_run, fixed_code, syntax_check,
           guard_parts, lambda_text >>

\* an import of the validator that succeeds: C5 tells it from the import
\* of the source
ValidatorImported == TRUE

\* whether "from validator import validate_code, fix_common_issues"
\* succeeds: validator.py defines no validate_code, so the import fails
HAS_VALIDATOR == FALSE

\* the largest number of nodes and of edges of the documents explored
MaxNodes == 3
MaxEdges == 2

\* no guard is being rewritten
NoGuard == [connective |-> "", operands |-> << >>]

EmptyObject == [k \in {} |-> << >>]

NodeVariants == {"plain", "label", "typed", "code", "named", "blank", "alike"}

MenuAt(menu, k) == menu[((k - 1) % Len(menu)) + 1]

\* the k-th node of a document of n nodes of the given variant
MenuNode(variant, k, n) ==
  LET id == "n" \o ToString(k)
  IN IF variant = "label"
       THEN [id |-> id, label |-> MenuAt(<< "My Node", "1st", "Same", "same" >>, k)]
     ELSE IF variant = "alike"
       THEN [id |-> id, label |-> MenuAt(<< "Same", "same", "Other" >>, k)]
     ELSE IF variant = "typed"
       THEN [id |-> id,
             class_path |-> MenuAt(<< "langchain.llms.openai.OpenAI", "x.y.CustomRouter",
                                      "langchain.prompts.PromptTemplate", "zzz" >>, k)]
     ELSE IF variant = "code"
       THEN [id |-> id,
             code |-> MenuAt(<< "def f(state):\n    state['seen'] = True\n    return state",
                                "state['x'] = 1\nif 'p' in state:\n    state['p'].append(2)",
                                "return {'total': 0.5, \"tags\": []}" >>, k)]
     ELSE IF variant = "named"
       THEN [id |-> MenuAt(<< "chatinput", "prompt", "llm", "parser" >>, k) \o ToString(k)]
     ELSE IF variant = "blank" /\ k = n
       THEN [id |-> id, label |-> ""]
     ELSE [id |-> id]

NodeList(variant, n) == [k \in 1..n |-> MenuNode(variant, k, n)]

\* unguarded edges from each node to the next
ChainEdges(node_list) ==
  [k \in 1..(Len(node_list) - 1) |->
     [source |-> node_list[k]["id"], target |-> node_list[k + 1]["id"]]]

\* the edges tried between three plain nodes: unguarded, equality guards on
\* one field, a compound guard, a guard without a field, and edges whose
\* endpoints are missing
EdgeMenu ==
  { [source |-> "n1", target |-> "n2"],
    [source |-> "n1", target |-> "n2", condition |-> "x == 'a'"],
    [source |-> "n1", target |-> "n3", condition |-> "x == 'b'"],
    [source |-> "n2", target |-> "n3", condition |-> "x > 1 and y == 'k'"],
    [source |-> "n2", target |-> "n1", condition |-> "go there"],
    [source |-> "n1", target |-> "zz"],
    [source |-> "yy", target |-> "n1"],
    [source |-> "yy", target |-> "zz"],
    [source |-> "n3"] }

EdgeLists == UNION { [1..n -> EdgeMenu] : n \in 0..MaxEdges }

Documents ==
  { EmptyObject, [edges |-> << >>], [nodes |-> << [id |-> "n1"], [label |-> "x"] >>] }
    \cup { [nodes |-> NodeList(v, n)] : v \in NodeVariants, n \in 0..MaxNodes }
    \cup { [nodes |-> NodeList(v, n), edges |-> ChainEdges(NodeList(v, n))] :
             v \in NodeVariants, n \in 2..MaxNodes }
    \cup { [nodes |-> NodeList("plain", 3), edges |-> es] : es \in EdgeLists }

SourceFiles ==
  { [kind |-> "missing"], [kind |-> "malformed"], [kind |-> "array"] }
    \cup { [kind |-> "object", data |-> d] : d \in Documents }

None == [some |-> FALSE]
Some(path) == [some |-> TRUE, path |-> path]

\* a file that exists before the call
OldFile == "old/graph.py"
InitialFiles == [p \in {OldFile} |-> << "# an earlier program" >>]

\* a path whose parent directory cannot be created
UnwritablePath == "/proc/nonexistent/graph.py"

\* the (output_path, validate) arguments explored
Arguments ==
  { << None, TRUE >>, << None, FALSE >>, << Some(""), TRUE >>,
    << Some("out/graph.py"), TRUE >>, << Some(OldFile), FALSE >>,
    << Some(UnwritablePath), TRUE >> }

Init ==
  /\ pc = "start"
  /\ source_file \in SourceFiles
  /\ \E a \in Arguments : output_path = a[1] /\ validate = a[2]
  /\ data = EmptyObject
  /\ nodes = << >>
  /\ edges = << >>
  /\ state_fields = << >>
  /\ langgraph_code = << >>
  /\ files = InitialFiles
  /\ result = [status |-> "none"]
  /\ cause = ""
  /\ repair_calls = 0
  /\ validate_calls = 0
  /\ class_path = ""
  /\ category = "none"
  /\ second_run = "none"
  /\ fixed_code = << >>
  /\ syntax_check = << >>
  /\ guard_parts = NoGuard
  /\ lambda_text = ""

\* a call without the final except clause, which lets the exception through
\* as it was raised: C3 tells it from the call of the source
Escape(r) ==
  /\ pc' = "raised"
  /\ result' = [status |-> "raised", type |-> r.exc.type, msg |-> r.exc.msg]
  /\ cause' = r.cause

\* "except Exception as e: raise LangGraphConversionError(...)": the call
\* ends with the wrapped error
Fail(r) ==
  /\ pc' = "raised"
  /\ result' = [status |-> "raised", type |-> "LangGraphConversionError",
                msg |-> "Conversion failed: " \o r.exc.msg]
  /\ cause' = r.cause

\* data = load_langflow_json(json_path)
Load ==
  /\ pc = "start"
  /\ \E r \in { load_langflow_json(JsonPath, source_file) } :
        IF r.ok
          THEN /\ pc' = "loaded"
               /\ data' = r.value
               /\ UNCHANGED << result, cause >>
          ELSE /\ Fail(r)
               /\ UNCHANGED data
  /\ UNCHANGED << source_file, output_path, validate, nodes, edges, state_fields,
                  langgraph_code, files, repair_calls, validate_calls, class_path, category,
                  second_run, fixed_code, syntax_check, guard_parts, lambda_text >>

\* the field names whose set the schema inference iterates over
AccessedFields(node_list) ==
  UNION { FieldAccesses(node_list[k]["code"]) :
            k \in { j \in DOMAIN node_list : "code" \in DOMAIN node_list[j] } }

\* nodes, edges, state_fields = extract_nodes_and_edges(data)
Extract ==
  /\ pc = "loaded"
  /\ \E order \in SetOrders(AccessedFields(data["nodes"])) :
     \E r \in { extract_nodes_and_edges(data, order) } :
          IF r.ok
            THEN /\ pc' = "extracted"
                 /\ nodes' = r.value.nodes
                 /\ edges' = r.value.edges
                 /\ state_fields' = r.value.state_fields
                 /\ UNCHANGED << result, cause >>
            ELSE /\ Fail(r)
                 /\ UNCHANGED << nodes, edges, state_fields >>
  /\ UNCHANGED << source_file, output_path, validate, data, langgraph_code, files,
                  repair_calls, validate_calls, class_path, category,
                  second_run, fixed_code, syntax_check, guard_parts, lambda_text >>

\* langgraph_code = generate_langgraph_code(nodes, edges, state_fields)
Generate ==
  /\ pc = "extracted"
  /\ \E order \in SetOrders(RouterTargets(nodes, edges)) :
     \E r \in { generate_langgraph_code(nodes, edges, state_fields, order) } :
          IF r.ok
            THEN /\ pc' = "generated"
                 /\ langgraph_code' = r.value
                 /\ UNCHANGED << result, cause >>
            ELSE /\ Fail(r)
                 /\ UNCHANGED langgraph_code
  /\ UNCHANGED << source_file, output_path, validate, data, nodes, edges, state_fields,
                  files, repair_calls, validate_calls, class_path, category,
                  second_run, fixed_code, syntax_check, guard_parts, lambda_text >>

RECURSIVE Repaired(_, _)
\* the text after fix_common_issues has been applied to it the given
\* number of times
Repaired(code, times) ==
  IF times = 0 THEN code ELSE fix_common_issues(Repaired(code, times - 1))

\* "if validate and HAS_VALIDATOR:": repair, validate, and repair again
\* when validate_code reports the program invalid.  validate_code is the
\* name the import asks for; its verdict is left open.
CheckAndFix ==
  /\ pc = "generated"
  /\ pc' = "checked"
  /\ IF validate /\ HAS_VALIDATOR
       THEN \E is_valid \in BOOLEAN :
              /\ validate_calls' = validate_calls + 1
              /\ repair_calls' = repair_calls + (IF is_valid THEN 1 ELSE 2)
              /\ langgraph_code' = Repaired(langgraph_code, IF is_valid THEN 1 ELSE 2)
       ELSE UNCHANGED << langgraph_code, repair_calls, validate_calls >>
  /\ UNCHANGED << source_file, output_path, validate, data, nodes, edges, state_fields,
                  files, result, cause, class_path, category,
                  second_run, fixed_code, syntax_check, guard_parts, lambda_text >>

\* a write that appends to the file instead of replacing its content: C4
\* tells it from the write of the source
append_text(fs, path, text) ==
  [p \in DOMAIN fs \cup {path} |->
     IF p = path THEN (IF p \in DOMAIN fs THEN fs[p] ELSE << >>) \o text ELSE fs[p]]

\* output_path.write_text(langgraph_code): the files after the write
write_text(fs, path, text) ==
  [p \in DOMAIN fs \cup {path} |-> IF p = path THEN text ELSE fs[p]]

\* "if output_path:": create the parent directory and write the text
Write ==
  /\ pc = "checked"
  /\ IF output_path.some /\ output_path.path # ""
       THEN IF output_path.path = UnwritablePath
              THEN /\ Fail(Raise("FileNotFoundError",
                                 "[Errno 2] No such file or directory: '/proc/nonexistent'"))
                   /\ UNCHANGED files
              ELSE /\ files' = write_text(files, output_path.path, langgraph_code)
                   /\ pc' = "written"
                   /\ UNCHANGED << result, cause >>
       ELSE /\ pc' = "written"
            /\ UNCHANGED << files, result, cause >>
  /\ UNCHANGED << source_file, output_path, validate, data, nodes, edges, state_fields,
                  langgraph_code, repair_calls, validate_calls, class_path, category,
                  second_run, fixed_code, syntax_check, guard_parts, lambda_text >>

\* return langgraph_code
ReturnCode ==
  /\ pc = "written"
  /\ pc' = "returned"
  /\ result' = [status |-> "returned", text |-> langgraph_code]
  /\ UNCHANGED << source_file, output_path, validate, data, nodes, edges, state_fields,
                  langgraph_code, files, cause, repair_calls, validate_calls,
                  class_path, category, second_run, fixed_code, syntax_check,
                  guard_parts, lambda_text >>

(***************************************************************************)
(* mapping.get_node_category as a machine of its own: one call on one      *)
(* class path.                                                             *)
(***************************************************************************)

\* one keyword of each branch of the keyword scan, in the order of the scan
SampleKeywords ==
  << "chatgpt", "openai", "parser", "router", "documentcompressor", "chain", "agent", "tool",
     "memory", "template", "retriever", "faiss", "embedding", "loader", "splitter", "python" >>

\* final path segments: no keyword, one keyword, or two keywords joined
ClassNames ==
  { a \o b : a, b \in Range(SampleKeywords) \cup {""} }
    \cup { "zzz", "Widget", "OpenAI", "MyTool", "ChatAnthropic", "llmchainfilter" }

\* the class paths classified: bare names, dotted names, table keys,
\* strings that start with or contain a table key, and proper substrings of
\* one table key
ClassPaths ==
  { prefix \o name : prefix \in {"", "x.y."}, name \in ClassNames }
    \cup { TableKey(i) : i \in TableIndex }
    \cup { TableKey(i) \o "V2" : i \in { j \in TableIndex : j % 7 = 1 } }
    \cup { "my." \o TableKey(i) \o ".Tool" : i \in { j \in TableIndex : j % 11 = 3 } }
    \cup { "langchain.retrievers.multi_query", "langchain.chains.retrieval" }

InitClassify ==
  /\ pc = "classify"
  /\ class_path \in ClassPaths
  /\ category = "none"
  /\ second_run = "none"
  /\ fixed_code = << >>
  /\ syntax_check = << >>
  /\ guard_parts = NoGuard
  /\ lambda_text = ""
  /\ source_file = [kind |-> "missing"]
  /\ output_path = None
  /\ validate = TRUE
  /\ data = EmptyObject
  /\ nodes = << >>
  /\ edges = << >>
  /\ state_fields = << >>
  /\ langgraph_code = << >>
  /\ files = InitialFiles
  /\ result = [status |-> "none"]
  /\ cause = ""
  /\ repair_calls = 0
  /\ validate_calls = 0

\* category = get_node_category(class_path)
Classify ==
  /\ pc = "classify"
  /\ pc' = "classified"
  /\ category' = get_node_category(class_path)
  /\ UNCHANGED << source_file, output_path, validate, data, nodes, edges, state_fields,
                  langgraph_code, files, result, cause, repair_calls, validate_calls,
                  class_path, second_run, fixed_code, syntax_check,
                  guard_parts, lambda_text >>

NextClassify == Classify

SpecClassify == InitClassify /\ [][NextClassify]_vars

Next == Load \/ Extract \/ Generate \/ CheckAndFix \/ Write \/ ReturnCode

Spec == Init /\ [][Next]_vars

(***************************************************************************)
(* edge_handler.process_edges as a machine of its own: one call on the     *)
(* edges that leave one node of a three-node graph.                        *)
(***************************************************************************)

\* the largest number of edges that leave the source
MaxGuarded == 2

\* the guards tried: equality on one field (one with an empty literal),
\* a compound guard, an ordering, a function call, and two guards that
\* name no field
GuardMenu ==
  { "x == 'a'", "x == 'b'", "x == ''", "x > 1 and y == 'k'", "y > 2", "len(items) > 0",
    "go there", "" }

\* the edges from n1 that are tried, unguarded and guarded
OutEdges ==
  { [source |-> "n1", target |-> t] : t \in {"n2", "n3"} }
    \cup { [source |-> "n1", target |-> t, condition |-> g] : t \in {"n2", "n3"}, g \in GuardMenu }

OutEdgeLists == UNION { [1..n -> OutEdges] : n \in 1..MaxGuarded }

InitEdges ==
  /\ pc = "edges"
  /\ nodes = NodesDict(NodeList("plain", 3))
  /\ edges \in OutEdgeLists
  /\ source_file = [kind |-> "missing"]
  /\ output_path = None
  /\ validate = TRUE
  /\ data = EmptyObject
  /\ state_fields = << >>
  /\ langgraph_code = << >>
  /\ files = InitialFiles
  /\ result = [status |-> "none"]
  /\ cause = ""
  /\ repair_calls = 0
  /\ validate_calls = 0
  /\ class_path = ""
  /\ category = "none"
  /\ second_run = "none"
  /\ fixed_code = << >>
  /\ syntax_check = << >>
  /\ guard_parts = NoGuard
  /\ lambda_text = ""

\* edge_code_lines = process_edges(edges, node_names, HAS_NODE_MAPPINGS)
ProcessEdges ==
  /\ pc = "edges"
  /\ pc' = "edges_done"
  /\ \E order \in SetOrders(RouterTargets(nodes, edges)) :
       langgraph_code' = process_edges(edges, NodeNames(nodes), HAS_NODE_MAPPINGS, order)
  /\ UNCHANGED << source_file, output_path, validate, data, nodes, edges, state_fields,
                  files, result, cause, repair_calls, validate_calls, class_path, category,
                  second_run, fixed_code, syntax_check, guard_parts, lambda_text >>

NextEdges == ProcessEdges

SpecEdges == InitEdges /\ [][NextEdges]_vars

(***************************************************************************)
(* parser.extract_state_fields as a machine of its own: the inference on   *)
(* one model, in one run of the program and then in a second run.          *)
(***************************************************************************)

\* the largest number of nodes and of edges of the models inferred from
MaxSchemaNodes == 2
MaxSchemaEdges == 1

SchemaNodeKinds ==
  {"plain", "assign", "access", "returns", "llmchain", "retriever", "documents",
   "retriever_lower"}

\* a node of the given kind: embedded code that assigns fields, that tests
\* two fields for membership, that returns a map, that assigns the field of
\* a category default, or a class path
SchemaNode(kind, k) ==
  LET id == "n" \o ToString(k)
  IN IF kind = "assign"
       THEN [id |-> id, code |-> "state['input'] = []\nstate[\"count\"] = 1"]
     ELSE IF kind = "access"
       THEN [id |-> id, code |-> "if 'p' in state:\n    pass\nif \"q\" in state:\n    pass"]
     ELSE IF kind = "returns"
       THEN [id |-> id, code |-> "return {'output': 5, \"tags\": []}"]
     ELSE IF kind = "llmchain"
       THEN [id |-> id, class_path |-> "x.LLMChain"]
     ELSE IF kind = "retriever"
       THEN [id |-> id, class_path |-> "x.y.RetrieverTool"]
     ELSE IF kind = "retriever_lower"
       THEN [id |-> id, class_path |-> "x.retriever"]
     ELSE IF kind = "documents"
       THEN [id |-> id, code |-> "state[\"documents\"] = {}"]
     ELSE [id |-> id]

\* the right-hand sides given to the field v: literals of each shape and a
\* name
ValueMenu == { "[]", "[1, 2]", "{}", "{'a': 1}", "True", "False", "7", "1.5", "'hi'", "name" }

\* embedded code that assigns rhs to the field v, or returns a map whose
\* entry for v is rhs
ValueCode(form, rhs) ==
  IF form = "assign" THEN "state[\"v\"] = " \o rhs ELSE "return {\"v\": " \o rhs \o "}"

\* the node lists: every list of up to MaxSchemaNodes nodes of the kinds
\* above, and one node that gives the field v a value
SchemaNodeLists ==
  UNION { { [k \in 1..n |-> SchemaNode(kinds[k], k)] : kinds \in [1..n -> SchemaNodeKinds] } :
            n \in 0..MaxSchemaNodes }
    \cup { << [id |-> "n1", code |-> ValueCode(form, rhs)] >> :
             form \in {"assign", "returns"}, rhs \in ValueMenu }

\* the edges of the models: unguarded, and guards on input, output and x
SchemaEdges ==
  { [source |-> "n1", target |-> "n1"] }
    \cup { [source |-> "n1", target |-> "n1", condition |-> g] :
             g \in {"input == 'true'", "output == '5'", "x == 'a'"} }

SchemaEdgeLists == UNION { [1..n -> SchemaEdges] : n \in 0..MaxSchemaEdges }

InitSchema ==
  /\ pc = "schema"
  /\ nodes \in SchemaNodeLists
  /\ edges \in SchemaEdgeLists
  /\ source_file = [kind |-> "missing"]
  /\ output_path = None
  /\ validate = TRUE
  /\ data = EmptyObject
  /\ state_fields = << >>
  /\ langgraph_code = << >>
  /\ files = InitialFiles
  /\ result = [status |-> "none"]
  /\ cause = ""
  /\ repair_calls = 0
  /\ validate_calls = 0
  /\ class_path = ""
  /\ category = "none"
  /\ second_run = "none"
  /\ fixed_code = << >>
  /\ syntax_check = << >>
  /\ guard_parts = NoGuard
  /\ lambda_text = ""

\* state_fields = extract_state_fields(nodes, edges)
Infer ==
  /\ pc = "schema"
  /\ pc' = "inferred"
  /\ \E order \in SetOrders(AccessedFields(nodes)) :
       state_fields' = extract_state_fields(nodes, edges, order)
  /\ UNCHANGED << source_file, output_path, validate, data, nodes, edges, langgraph_code,
                  files, result, cause, repair_calls, validate_calls, class_path, category,
                  second_run, fixed_code, syntax_check, guard_parts, lambda_text >>

\* extract_state_fields(nodes, edges) in another run of the program, where
\* the sets of strings have an iteration order of their own
InferInSecondRun ==
  /\ pc = "inferred"
  /\ pc' = "inferred_twice"
  /\ \E order \in SetOrders(AccessedFields(nodes)) :
       second_run' = extract_state_fields(nodes, edges, order)
  /\ UNCHANGED << source_file, output_path, validate, data, nodes, edges, state_fields,
                  langgraph_code, files, result, cause, repair_calls, validate_calls,
                  class_path, category, fixed_code, syntax_check, guard_parts, lambda_text >>

NextSchema == Infer \/ InferInSecondRun

SpecSchema == InitSchema /\ [][NextSchema]_vars

(***************************************************************************)
(* The emitter, the syntax check and the repair as a machine of their own: *)
(* a model and its schema are emitted, in one run of the program and in a  *)
(* second run, and the emitted text is checked and then repaired.          *)
(***************************************************************************)

\* the edge lists whose endpoints are nodes of the three-node graph
ProgramEdgeLists ==
  { es \in EdgeLists :
      \A k \in DOMAIN es : /\ {"source", "target"} \subseteq DOMAIN es[k]
                           /\ {es[k]["source"], es[k]["target"]} \subseteq {"n1", "n2", "n3"} }

\* the models emitted: every kind of node without edges and in a chain,
\* and three plain nodes with each edge list
ProgramModels ==
  { [nodes |-> NodeList(v, n), edges |-> << >>] :
      v \in NodeVariants \ {"blank"}, n \in 0..MaxNodes }
    \cup { [nodes |-> NodeList(v, n), edges |-> ChainEdges(NodeList(v, n))] :
             v \in NodeVariants \ {"blank"}, n \in 2..MaxNodes }
    \cup { [nodes |-> NodeList("plain", 3), edges |-> es] : es \in ProgramEdgeLists }

InitProgram ==
  /\ pc = "model"
  /\ \E m \in ProgramModels :
       /\ nodes = NodesDict(m.nodes)
       /\ edges = m.edges
       /\ \E order \in SetOrders(AccessedFields(m.nodes)) :
            state_fields = extract_state_fields(NodesDict(m.nodes), m.edges, order)
  /\ source_file = [kind |-> "missing"]
  /\ output_path = None
  /\ validate = TRUE
  /\ data = EmptyObject
  /\ langgraph_code = << >>
  /\ files = InitialFiles
  /\ result = [status |-> "none"]
  /\ cause = ""
  /\ repair_calls = 0
  /\ validate_calls = 0
  /\ class_path = ""
  /\ category = "none"
  /\ second_run = "none"
  /\ fixed_code = << >>
  /\ syntax_check = << >>
  /\ guard_parts = NoGuard
  /\ lambda_text = ""

\* langgraph_code = generate_langgraph_code(nodes, edges, state_fields)
Emit ==
  /\ pc = "model"
  /\ pc' = "emitted"
  /\ \E order \in SetOrders(RouterTargets(nodes, edges)) :
     \E r \in { generate_langgraph_code(nodes, edges, state_fields, order) } :
       /\ r.ok
       /\ langgraph_code' = r.value
  /\ UNCHANGED << source_file, output_path, validate, data, nodes, edges, state_fields,
                  files, result, cause, repair_calls, validate_calls, class_path, category,
                  second_run, fixed_code, syntax_check, guard_parts, lambda_text >>

\* generate_langgraph_code(nodes, edges, state_fields) in another run of
\* the program, where the sets of strings have an iteration order of their
\* own
EmitInSecondRun ==
  /\ pc = "emitted"
  /\ pc' = "emitted_twice"
  /\ \E order \in SetOrders(RouterTargets(nodes, edges)) :
     \E r \in { generate_langgraph_code(nodes, edges, state_fields, order) } :
       /\ r.ok
       /\ second_run' = r.value
  /\ UNCHANGED << source_file, output_path, validate, data, nodes, edges, state_fields,
                  langgraph_code, files, result, cause, repair_calls, validate_calls,
                  class_path, category, fixed_code, syntax_check, guard_parts, lambda_text >>

\* is_valid, error = validate_python_syntax(code)
CheckSyntax ==
  /\ pc = "emitted"
  /\ pc' = "syntax_checked"
  /\ \E ok \in { validate_python_syntax(langgraph_code) } :
       syntax_check' = IF ok THEN << TRUE, "None" >> ELSE << FALSE, "Syntax error" >>
  /\ UNCHANGED << source_file, output_path, validate, data, nodes, edges, state_fields,
                  langgraph_code, files, result, cause, repair_calls, validate_calls,
                  class_path, category, second_run, fixed_code, guard_parts, lambda_text >>

\* fixed_code = fix_common_issues(code)
Repair ==
  /\ pc = "syntax_checked"
  /\ pc' = "repaired"
  /\ fixed_code' = Repaired(langgraph_code, 1)
  /\ UNCHANGED << source_file, output_path, validate, data, nodes, edges, state_fields,
                  langgraph_code, files, result, cause, repair_calls, validate_calls,
                  class_path, category, second_run, syntax_check, guard_parts, lambda_text >>

NextProgram == Emit \/ EmitInSecondRun \/ CheckSyntax \/ Repair

SpecProgram == InitProgram /\ [][NextProgram]_vars

(***************************************************************************)
(* The rewriting of one guard as a machine of its own: a guard is put      *)
(* together from a connective and operands that hold no connective, and    *)
(* convert_edge_condition rewrites its text.                               *)
(***************************************************************************)

\* the operands: bare names, comparisons and membership tests
GuardAtoms ==
  { "a", "ready", "x == 'a'", "n == 1", "x != 'b'", "n > 1", "n <= 2",
    "'k' in tags", "x in ['a', 'b']" }

CompoundGuards ==
  { [connective |-> c, operands |-> << p, q >>] :
      c \in {"and", "or"}, p \in GuardAtoms, q \in GuardAtoms }
    \cup { [connective |-> "not", operands |-> << p >>] : p \in GuardAtoms }

\* the text of the guard
GuardText(parts) ==
  IF parts.connective = "not" THEN "not " \o parts.operands[1]
  ELSE JoinWith(parts.operands, " " \o parts.connective \o " ")

InitGuard ==
  /\ pc = "guard"
  /\ guard_parts \in CompoundGuards
  /\ lambda_text = ""
  /\ source_file = [kind |-> "missing"]
  /\ output_path = None
  /\ validate = TRUE
  /\ data = EmptyObject
  /\ nodes = << >>
  /\ edges = << >>
  /\ state_fields = << >>
  /\ langgraph_code = << >>
  /\ files = InitialFiles
  /\ result = [status |-> "none"]
  /\ cause = ""
  /\ repair_calls = 0
  /\ validate_calls = 0
  /\ class_path = ""
  /\ category = "none"
  /\ second_run = "none"
  /\ fixed_code = << >>
  /\ syntax_check = << >>

\* convert_edge_condition(condition)
RewriteGuard ==
  /\ pc = "guard"
  /\ pc' = "rewritten"
  /\ lambda_text' = convert_edge_condition(GuardText(guard_parts))
  /\ UNCHANGED << source_file, output_path, validate, data, nodes, edges, state_fields,
                  langgraph_code, files, result, cause, repair_calls, validate_calls,
                  class_path, category, second_run, fixed_code, syntax_check, guard_parts >>

NextGuard == RewriteGuard

SpecGuard == InitGuard /\ [][NextGuard]_vars

(***************************************************************************)
(* The claims about the conversion call, stated over the machine above.    *)
(***************************************************************************)

\* the number of lines of a program that contain the given text
CountLines(text, part) == Cardinality({ k \in DOMAIN text : Contains(text[k], part) })

\* the call was made on a JSON object
IsObject == source_file.kind = "object"

\* C1: a document with N nodes that converts successfully yields a program
\* with exactly N node-registration statements, exactly one entry
\* declaration and exactly one exit declaration, for every N >= 0 and any
\* mix of guarded and unguarded edges.
C1_RegistrationsEntryExit ==
  pc = "returned" =>
    /\ CountLines(result.text, "graph.add_node(") = Len(source_file.data["nodes"])
    /\ CountLines(result.text, "graph.add_edge(START, ") = 1
    /\ CountLines(result.text, ", END)") = 1

\* the ids of the nodes of the document of the call
C2_Ids == { source_file.data["nodes"][k]["id"] : k \in DOMAIN source_file.data["nodes"] }

\* the endpoints of the document's edges in declaration order, the source
\* of an edge before its target
C2_Declared ==
  [k \in 1..(2 * Len(source_file.data["edges"])) |->
     [edge |-> source_file.data["edges"][(k + 1) \div 2],
      key |-> IF k % 2 = 1 THEN "source" ELSE "target"]]

\* the positions of the endpoints that name no node
C2_Dangling ==
  { k \in DOMAIN C2_Declared :
      /\ C2_Declared[k].key \in DOMAIN C2_Declared[k].edge
      /\ C2_Declared[k].edge[C2_Declared[k].key] \notin C2_Ids }

\* the document loads, every node has an id, and the first endpoint that is
\* wrong names a node that does not exist
C2_Case ==
  /\ IsObject
  /\ {"nodes", "edges"} \subseteq DOMAIN source_file.data
  /\ \A k \in DOMAIN source_file.data["nodes"] : "id" \in DOMAIN source_file.data["nodes"][k]
  /\ C2_Dangling # {}
  /\ \A j \in 1..SetMin(C2_Dangling) :
       C2_Declared[j].key \in DOMAIN C2_Declared[j].edge

\* the id named by the first endpoint that names no node
C2_FirstMissing ==
  C2_Declared[SetMin(C2_Dangling)].edge[C2_Declared[SetMin(C2_Dangling)].key]

\* C2: the edges are checked in declaration order, source before target;
\* the call fails on the first endpoint that is not the id of a node, with an
\* error that names that id (and no other missing id), returns no program
\* text and writes no file.
C2_FailFastReference ==
  (C2_Case /\ pc \notin {"start", "loaded"}) =>
    /\ pc = "raised"
    /\ result.status = "raised"
    /\ Contains(result.msg, "node '" \o C2_FirstMissing \o "' not found")
    /\ \A k \in C2_Dangling :
         C2_Declared[k].edge[C2_Declared[k].key] # C2_FirstMissing
           => ~Contains(result.msg, "'" \o C2_Declared[k].edge[C2_Declared[k].key] \o "'")
    /\ langgraph_code = << >>
    /\ files = InitialFiles

\* a call that failed on the target of an edge whose source exists, with a
\* later endpoint that is missing too
C2_Witness ==
  /\ C2_Case
  /\ pc = "raised"
  /\ SetMin(C2_Dangling) = 2
  /\ Cardinality(C2_Dangling) > 1

\* C3: every failure inside the call reaches the caller as the one
\* conversion error type, with a message that contains the message of the
\* original cause; nothing else escapes.
C3_SingleErrorType ==
  /\ result.status \in {"none", "returned", "raised"}
  /\ (pc = "raised") <=> (result.status = "raised")
  /\ result.status = "raised" =>
       /\ result.type = "LangGraphConversionError"
       /\ cause # ""
       /\ Contains(result.msg, cause)

\* a call that failed when it wrote the output file
C3_Witness ==
  /\ pc = "raised"
  /\ result.type = "LangGraphConversionError"
  /\ StartsWith(cause, "[Errno 2]")
  /\ langgraph_code # << >>

\* C4: the output file is written only as the last step: a call that raises
\* creates or modifies no file, a call without an output path writes
\* nothing, no file changes before the validate/repair step is over, and
\* the text written is exactly the text returned.
C4_WriteLast ==
  /\ files # InitialFiles => (pc \in {"written", "returned"} /\ output_path.some)
  /\ pc = "raised" => files = InitialFiles
  /\ ~output_path.some => files = InitialFiles
  /\ \A p \in DOMAIN files :
       files[p] # (IF p \in DOMAIN InitialFiles THEN InitialFiles[p] ELSE << >>)
         => (p = output_path.path /\ files[p] = langgraph_code)
  /\ (pc = "returned" /\ output_path.some /\ output_path.path # "")
       => (output_path.path \in DOMAIN files /\ files[output_path.path] = result.text)

\* a call that replaced an existing file and returned
C4_Witness ==
  /\ pc = "returned"
  /\ output_path = Some(OldFile)
  /\ files[OldFile] = result.text
  /\ files[OldFile] # InitialFiles[OldFile]

C6_InvalidProgramSurfaced ==
  /\ (pc = "returned" /\ validate) => validate_python_syntax(result.text)
  /\ (validate /\ output_path.some /\ output_path.path \in DOMAIN files
        /\ files[output_path.path] # InitialFiles[OldFile])
       => validate_python_syntax(files[output_path.path])

\* C7: the validate flag controls the validate/repair loop: with the flag
\* on the program is validated before it is returned or written, with the
\* flag off the emitter's text is returned with no validation and no repair.
C7_ValidateFlag ==
  /\ (validate /\ pc \in {"written", "returned"}) => validate_calls >= 1
  /\ ~validate => (validate_calls = 0 /\ repair_calls = 0)

\* the document has nodes, all with an id and a label that is not empty
C8_NodesWellFormed ==
  /\ "nodes" \in DOMAIN source_file.data
  /\ \A k \in DOMAIN source_file.data["nodes"] :
       /\ "id" \in DOMAIN source_file.data["nodes"][k]
       /\ NodeLabel(source_file.data["nodes"][k]) # ""

\* C8: a document without a top-level nodes field fails with a load error;
\* a document with nodes and without an edges field loads and converts as a
\* graph with zero edges.
C8_NodesRequiredEdgesOptional ==
  /\ (IsObject /\ "nodes" \notin DOMAIN source_file.data) =>
       /\ pc \in {"start", "raised"}
       /\ pc = "raised" =>
            /\ StartsWith(result.msg, "Conversion failed: Error loading LangFlow JSON: ")
            /\ Contains(result.msg, "'nodes' field is required")
  /\ (IsObject /\ C8_NodesWellFormed /\ "edges" \notin DOMAIN source_file.data) =>
       /\ pc = "raised" => output_path = Some(UnwritablePath)
       /\ pc \notin {"start", "loaded", "raised"} => edges = << >>
       /\ pc = "returned" =>
            /\ \A k \in DOMAIN result.text :
                 Contains(result.text[k], "graph.add_edge(")
                   => (Contains(result.text[k], "(START, ") \/ Contains(result.text[k], ", END)"))
            /\ CountLines(result.text, "graph.add_conditional_edges(") = 0

\* a call on a document with two nodes and no edges field that returned a
\* program
C8_Witness ==
  /\ IsObject
  /\ C8_NodesWellFormed
  /\ "edges" \notin DOMAIN source_file.data
  /\ Len(source_file.data["nodes"]) = 2
  /\ pc = "returned"
  /\ edges = << >>

(***************************************************************************)
(* The claims about get_node_category, stated over the classifier machine. *)
(***************************************************************************)

\* C9: classification is total: for every input string, the empty string
\* and strings that match no table key and no keyword included, the result
\* is a member of the closed set of categories.
C9_ClassifyTotal == pc = "classified" => category \in NodeCategory

\* the empty string and a string without any keyword have been classified
C9_Witness ==
  /\ pc = "classified"
  /\ class_path \in {"", "zzz"}
  /\ category = CUSTOM

\* the order in which the keyword scan tries its groups
C10_GroupOrder ==
  << CHAT_MODEL, LLM, OUTPUT_PARSER, ROUTER, DOCUMENT_TRANSFORMER, CHAIN, AGENT, TOOL, MEMORY,
     PROMPT, RETRIEVER, VECTORSTORE, EMBEDDING, DOCUMENT, TEXT_SPLITTER, UTILITY >>

\* the table keys that class_path contains
C10_ContainedKeys == { i \in TableIndex : Contains(class_path, TableKey(i)) }

\* C10: the result is that of the first stage that matches: the exact table
\* lookup, then the substring table lookup, then the keyword scan of the
\* final path segment with its groups tried in the fixed order (the first
\* group with a matching keyword decides), then the user-defined fallback.
C10_FirstStageWins ==
  pc = "classified" =>
    IF \E i \in TableIndex : TableKey(i) = class_path
      THEN \E i \in TableIndex : TableKey(i) = class_path /\ category = TableCategory(i)
    ELSE IF C10_ContainedKeys # {}
      THEN \E i \in C10_ContainedKeys : category = TableCategory(i)
    ELSE category = FirstGroup(C10_GroupOrder, Lower(LastSegment(class_path)))

\* a final path segment that holds both a chat-model keyword and an LLM
\* keyword, in either order, has been classified as a chat model
C10_Witness ==
  /\ pc = "classified"
  /\ \/ (class_path = "x.y.chatgptopenai" /\ category = CHAT_MODEL)
     \/ (class_path = "x.y.openaichatgpt" /\ category = CHAT_MODEL)

(***************************************************************************)
(* The claims about process_edges, stated over the edge machine.           *)
(***************************************************************************)

\* every edge that leaves the source carries a guard
AllGuarded == \A k \in DOMAIN edges : HasCondition(edges[k])

\* the guards of the edges, in declaration order
Guards == [k \in DOMAIN edges |-> edges[k]["condition"]]

\* the field and the literal of the comparison  field == 'literal'  that a
\* guard holds (ok is FALSE when it holds none)
Comparison(guard) == Search(StringEqAt, guard)

\* the guards mention exactly one equality-compared field, no ordering
\* field, no function field and no connective, and each guard compares that
\* field against a literal
C11_Case ==
  /\ AllGuarded
  /\ Cardinality(extract_equality_fields(Guards)) = 1
  /\ extract_comparison_fields(Guards) = {}
  /\ extract_function_fields(Guards) = {}
  /\ ~HasLogicalOps(Guards)
  /\ \A k \in DOMAIN edges :
       Comparison(Guards[k]).ok /\ Comparison(Guards[k]).g1 \in extract_equality_fields(Guards)

RECURSIVE C11_Entries(_)
\* the table with one entry per edge, literal -> target, in declaration
\* order; an edge that compares against the literal of an earlier edge
\* takes over the entry of that edge
C11_Entries(es) ==
  IF Len(es) = 0 THEN << >>
  ELSE DictSet(C11_Entries(SubSeq(es, 1, Len(es) - 1)),
               Comparison(es[Len(es)]["condition"]).g2,
               CleanLabel([id |-> es[Len(es)]["target"]]))

\* the lines of a table
C11_TableLines(table) ==
  [k \in DOMAIN table |-> "            \"" \o table[k][1] \o "\": \"" \o table[k][2] \o "\","]

\* C11: when all edges of a source are guarded and the guards mention
\* exactly one equality-compared field, no ordering field, no function field
\* and no connective, the source is compiled to one direct table on that
\* field, which has one entry per edge: the literal of the edge as key, the
\* target of the edge as value.
C11_DirectTable ==
  (pc = "edges_done" /\ C11_Case) =>
    /\ Len(langgraph_code) >= 9
    /\ langgraph_code[4] = "    graph.add_conditional_edges("
    /\ langgraph_code[5] = "        \"node_n1\","
    /\ langgraph_code[7] = "        {"
    /\ SubSeq(langgraph_code, 8, Len(langgraph_code) - 2) = C11_TableLines(C11_Entries(edges))
    /\ langgraph_code[Len(langgraph_code) - 1] = "        }"
    /\ CountLines(langgraph_code, "graph.add_conditional_edges(") = 1

\* the guards yield at least one feature field
HasFeatureField ==
  extract_equality_fields(Guards) \cup extract_comparison_fields(Guards)
    \cup extract_function_fields(Guards) # {}

\* the direct-table condition: one equality field and nothing else
DirectTableCondition ==
  /\ Cardinality(extract_equality_fields(Guards)) = 1
  /\ extract_comparison_fields(Guards) = {}
  /\ extract_function_fields(Guards) = {}
  /\ ~HasLogicalOps(Guards)

\* the guards yield a feature field and fail the direct-table condition
C12_Case == AllGuarded /\ HasFeatureField /\ ~DirectTableCondition

\* the name under which the program registers the target of edge i
TargetName(i) == CleanLabel([id |-> edges[i]["target"]])

\* C12: when the guards of a source yield a feature field and fail the
\* direct-table condition, the source is compiled to a router function with
\* exactly one branch per edge, in declaration order (an if, then elifs),
\* and an else branch that returns the target of the last edge.
C12_RouterBranches ==
  (pc = "edges_done" /\ C12_Case) =>
    /\ Len(langgraph_code) >= 6 + 2 * Len(edges)
    /\ langgraph_code[4] = "    def node_n1_router(state):"
    /\ \A i \in DOMAIN edges :
         /\ StartsWith(langgraph_code[3 + 2 * i],
                       IF i = 1 THEN "        if " ELSE "        elif ")
         /\ EndsWith(langgraph_code[3 + 2 * i], ":")
         /\ langgraph_code[4 + 2 * i] = "            return \"" \o TargetName(i) \o "\""
    /\ langgraph_code[5 + 2 * Len(edges)] = "        else:"
    /\ langgraph_code[6 + 2 * Len(edges)]
         = "            return \"" \o TargetName(Len(edges)) \o "\""
    /\ Cardinality({ k \in DOMAIN langgraph_code :
                       \/ StartsWith(langgraph_code[k], "        if ")
                       \/ StartsWith(langgraph_code[k], "        elif ") }) = Len(edges)
    /\ CountLines(langgraph_code, "        else:") = 1

\* a router compiled for two edges with different targets, the first with a
\* compound guard
C12_Witness ==
  /\ pc = "edges_done"
  /\ C12_Case
  /\ Len(edges) = 2
  /\ edges[1]["target"] = "n3"
  /\ edges[2]["target"] = "n2"
  /\ Guards[1] = "x > 1 and y == 'k'"
  /\ langgraph_code[8] = "            return \"node_n2\""
  /\ langgraph_code[10] = "            return \"node_n2\""

\* the edges that compare the field against the literal
C13_EdgesOn(literal) ==
  { k \in DOMAIN edges : Comparison(Guards[k]).ok /\ Comparison(Guards[k]).g2 = literal }

\* the literals that several edges compare the field against
C13_SharedLiterals ==
  { Comparison(Guards[k]).g2 :
      k \in { j \in DOMAIN edges : Comparison(Guards[j]).ok
                                     /\ Cardinality(C13_EdgesOn(Comparison(Guards[j]).g2)) > 1 } }

\* the lines of the program that are table entries for the literal
C13_EntriesFor(literal) ==
  { k \in DOMAIN langgraph_code :
      StartsWith(langgraph_code[k], "            \"" \o literal \o "\": ") }

\* C13: in the direct-table path, when several edges compare the field
\* against the same literal, the table has one entry for that literal and it
\* holds the target of the last such edge in declaration order; the
\* compilation ends normally and the program carries no warning.
C13_LastEdgeWins ==
  (pc = "edges_done" /\ AllGuarded /\ DirectTableCondition) =>
    /\ \A literal \in C13_SharedLiterals :
         /\ Cardinality(C13_EntriesFor(literal)) = 1
         /\ \A k \in C13_EntriesFor(literal) :
              langgraph_code[k]
                = "            \"" \o literal \o "\": \""
                    \o TargetName(SetMax(C13_EdgesOn(literal))) \o "\","
    /\ \A k \in DOMAIN langgraph_code : ~Contains(Lower(langgraph_code[k]), "warning")

\* C14: when every edge of a source carries a guard and no guard yields an
\* equality, ordering or function field, the edges are emitted in
\* declaration order, each as an unconditional transition preceded by a
\* comment that carries its guard text, and the compilation ends normally.
C14_PassThrough ==
  (pc = "edges_done" /\ AllGuarded /\ ~HasFeatureField) =>
    /\ Len(langgraph_code) = 1 + 2 * Len(edges)
    /\ \A k \in DOMAIN edges :
         /\ langgraph_code[2 * k] = "    # Condition: " \o Guards[k]
         /\ langgraph_code[2 * k + 1]
              = "    graph.add_edge(\"node_n1\", \"" \o TargetName(k) \o "\")"

\* two edges to different targets, with guards that name no field, have
\* been emitted
C14_Witness ==
  /\ pc = "edges_done"
  /\ AllGuarded
  /\ ~HasFeatureField
  /\ Len(edges) = 2
  /\ Guards = << "go there", "" >>
  /\ edges[1]["target"] = "n3"
  /\ edges[2]["target"] = "n2"
  /\ Len(langgraph_code) = 5

(***************************************************************************)
(* The claims about extract_state_fields, stated over the schema machine.  *)
(***************************************************************************)

\* the types the schema gives to the field, one for each of its entries
TypesOf(schema, field) == { schema[k][2] : k \in { j \in DOMAIN schema : schema[j][1] = field } }

\* the number of entries the schema has for the field
EntriesOf(schema, field) == Cardinality({ k \in DOMAIN schema : schema[k][1] = field })

\* C15: after inference on any model the schema holds the field input with
\* type string and the field output with type map, each once; no node
\* logic, class path or edge guard removes either or changes its type.
C15_SeedFieldsKept ==
  pc \in {"inferred", "inferred_twice"} =>
    /\ EntriesOf(state_fields, "input") = 1
    /\ TypesOf(state_fields, "input") = {"str"}
    /\ EntriesOf(state_fields, "output") = 1
    /\ TypesOf(state_fields, "output") = {"dict"}

\* a schema inferred from a node that assigns a list to input, a node that
\* returns a number for output, and a guard on output
C15_Witness ==
  /\ pc = "inferred"
  /\ Len(nodes) = 2
  /\ "code" \in DOMAIN nodes[1]
  /\ Contains(nodes[1]["code"], "state['input'] = []")
  /\ "code" \in DOMAIN nodes[2]
  /\ Contains(nodes[2]["code"], "'output': 5")
  /\ Len(edges) = 1
  /\ HasCondition(edges[1])
  /\ edges[1]["condition"] = "output == '5'"
  /\ TypesOf(state_fields, "count") = {"int"}

\* C16: inference is deterministic: a second inference on the same model,
\* also in a separate run of the program, yields the same fields with the
\* same types in the same order.
C16_InferenceDeterministic ==
  pc = "inferred_twice" => second_run = state_fields

(***************************************************************************)
(* The claims about the emitter, the syntax check and the repair, stated   *)
(* over the program machine.                                               *)
(***************************************************************************)

\* C17: emission is deterministic: the same model, schema and routing plans
\* produce the same program text in every run, the order of the
\* conditional-edge blocks of a router included.
C17_EmissionDeterministic ==
  pc = "emitted_twice" => second_run = langgraph_code

\* the lines of the program that declare an entry point
EntryLines(text) ==
  { text[k] : k \in { j \in DOMAIN text : Contains(text[j], "graph.add_edge(START, ") } }

\* the lines of the program that declare an exit point
ExitLines(text) ==
  { text[k] : k \in { j \in DOMAIN text : EndsWith(text[j], ", END)") } }

C19_RepairKeepsValid ==
  (pc = "repaired" /\ syntax_check[1]) => fixed_code = langgraph_code

\* the node names the program registers with graph.add_node
RegisteredNodes(text) ==
  { Search(AddNodeCallAt, text[k]).g1 :
      k \in { j \in DOMAIN text : Contains(text[j], "graph.add_node(\"") } }

\* the node names the edges, the entry and the exit of the program name
ReferencedNodes(text) ==
  UNION { { FindAll(DQNameAt, text[k])[i].g1 : i \in DOMAIN FindAll(DQNameAt, text[k]) } :
            k \in { j \in DOMAIN text : Contains(text[j], "graph.add_edge(") } }

\* the checks of the contract that the program fails
FailedChecks(text) ==
  (IF ReferencedNodes(text) \subseteq RegisteredNodes(text) THEN {} ELSE {"reference"})
    \cup (IF CountLines(text, "graph.add_edge(START, ") = 1 THEN {} ELSE {"entry count"})
    \cup (IF CountLines(text, ", END)") = 1 THEN {} ELSE {"exit count"})
    \cup (IF validate_python_syntax(text) THEN {} ELSE {"syntax"})

\* the issues a verdict (is_valid, error_message) reports
ReportedIssues(verdict) == IF verdict[1] THEN {} ELSE {"syntax"}

\* C20: validation runs all of its checks, none skipped because another
\* failed, and reports an issue for each of: an edge, entry or exit that
\* names a node that is not registered; an entry count or exit count other
\* than one; a syntax error in the emitted text.
C20_IssuePerFailedCheck ==
  pc = "syntax_checked" => FailedChecks(langgraph_code) \subseteq ReportedIssues(syntax_check)

(***************************************************************************)
(* The claims about the rewriting of guards, stated over the guard machine.*)
(***************************************************************************)

\* the expression of a lambda
LambdaBody(text) == ReplaceAll(text, LambdaPrefix, "")

\* the rewrites of the operands joined by the connective
Rejoined(parts) ==
  LET rewritten == [k \in DOMAIN parts.operands |->
                      LambdaBody(convert_edge_condition(parts.operands[k]))]
  IN IF parts.connective = "not" THEN LambdaPrefix \o "not (" \o rewritten[1] \o ")"
     ELSE LambdaPrefix \o JoinWith(rewritten, " " \o parts.connective \o " ")

\* C21: rewriting a guard "P and Q" ("P or Q", "not P") yields the rewrite
\* of P joined by "and" with the rewrite of Q ("or", "not"): every operand
\* is rewritten independently and every operand is kept, also when the
\* operands are comparison or membership expressions.
C21_OperandsRewrittenAndKept ==
  pc = "rewritten" => lambda_text = Rejoined(guard_parts)

(***************************************************************************)
(* Further claims about the edge section, stated over the edge machine.    *)
(***************************************************************************)

\* the field the guards compare
ComparedField == CHOOSE f \in extract_equality_fields(Guards) : TRUE

\* the selectors that return the value of a field
FieldSelectors(field) ==
  { "        lambda state: state.get(\"" \o field \o "\", \"\"),",
    "        lambda state: state.get(\"" \o field \o "\"),",
    "        lambda state: state.get('" \o field \o "', ''),",
    "        lambda state: state.get('" \o field \o "')," }

\* C22: in the direct-table path the emitted routing selector returns the
\* value of the compared state field, so that every literal key of the
\* routing table can be selected; the selector is the same whatever literal
\* the edges, the last declared edge in particular, compare against.
C22_SelectorReturnsField ==
  (pc = "edges_done" /\ AllGuarded /\ DirectTableCondition) =>
    /\ Len(langgraph_code) >= 6
    /\ langgraph_code[4] = "    graph.add_conditional_edges("
    /\ langgraph_code[6] \in FieldSelectors(ComparedField)

(***************************************************************************)
(* Further claims about the inferred schema, stated over the schema        *)
(* machine.                                                                *)
(***************************************************************************)

\* the schema after the first k nodes
SchemaAfterNodes(k, order) == NodeFields(SeedFields, SubSeq(nodes, 1, k), order)

\* the schema after the embedded code of node k, before its class path
SchemaAfterCode(k, order) ==
  IF "code" \in DOMAIN nodes[k]
    THEN CodeFields(SchemaAfterNodes(k - 1, order), nodes[k]["code"], order)
    ELSE SchemaAfterNodes(k - 1, order)

\* the schema after the nodes and the first j edges
SchemaAfterEdges(j, order) ==
  EdgeFields(SchemaAfterNodes(Len(nodes), order), SubSeq(edges, 1, j))

\* the schemas inference passes through
SchemaStages(order) ==
  { SchemaAfterNodes(k, order) : k \in 0..Len(nodes) }
    \cup { SchemaAfterCode(k, order) : k \in 1..Len(nodes) }
    \cup { SchemaAfterEdges(j, order) : j \in 0..Len(edges) }

\* C23: first inference wins for every field: once a field name has a type
\* in the schema, no later discovery for the same name (from the logic of
\* another node, from a category default, or from an edge guard) changes
\* that type, and no field is ever removed.
C23_FirstInferenceWins ==
  pc = "inferred" =>
    \A order \in SetOrders(AccessedFields(nodes)) :
      \A stage \in SchemaStages(order) : Range(stage) \subseteq Range(state_fields)

\* C24: category default fields follow the classifier: for every node that
\* classify places in the document-retriever category, inference adds the
\* field documents with type list to the schema.
C24_RetrieverAddsDocuments ==
  pc = "inferred" =>
    \A k \in DOMAIN nodes :
      get_node_category(NodeClassPath(nodes[k])) = RETRIEVER
        => << "documents", "list" >> \in Range(state_fields)

(***************************************************************************)
(* A further claim about get_node_category, stated over the classifier     *)
(* machine.                                                                *)
(***************************************************************************)

\* the table keys that contain class_path or that class_path contains
C25_MatchingKeys ==
  { i \in TableIndex :
      Contains(TableKey(i), class_path) \/ Contains(class_path, TableKey(i)) }

\* the longest of the matching keys
C25_LongestKeys ==
  { i \in C25_MatchingKeys : \A j \in C25_MatchingKeys : Len(TableKey(j)) <= Len(TableKey(i)) }

\* C25: when the identifier is not an exact table key, the substring stage
\* selects the longest table key that contains the identifier or is
\* contained in the identifier: an identifier that is a proper substring of
\* a table key is classified by the category of that key, and when several
\* keys match the longest one decides.  (Stated for a non-empty identifier.)
C25_LongestSubstringKey ==
  (/\ pc = "classified"
   /\ class_path # ""
   /\ \A i \in TableIndex : TableKey(i) # class_path
   /\ C25_MatchingKeys # {})
    => \E i \in C25_LongestKeys : category = TableCategory(i)

\* the type that the textual shape of a right-hand side stands for
ShapeType(rhs) ==
  IF StartsWith(rhs, "[") /\ EndsWith(rhs, "]") THEN "list"
  ELSE IF StartsWith(rhs, "{") /\ EndsWith(rhs, "}") THEN "dict"
  ELSE IF rhs \in {"True", "False"} THEN "bool"
  ELSE IF AllDigits(rhs) THEN "int"
  ELSE IF DigitsDotDigits(rhs) THEN "float"
  ELSE "str"

\* C26: a field discovered through an assignment or a returned routing map
\* receives its type from the textual shape of the right-hand side: list
\* exactly when it is an empty or bracketed literal, otherwise map exactly
\* when it is a brace literal, otherwise boolean exactly when it is a
\* true/false token, otherwise integer when it is an all-digit literal,
\* otherwise float when it is a digit-dot-digit literal, otherwise string.
C26_TypeFromShape ==
  pc = "inferred" =>
    \A form \in {"assign", "returns"}, rhs \in ValueMenu :
      (Len(nodes) = 1 /\ nodes[1] = [id |-> "n1", code |-> ValueCode(form, rhs)])
        => << "v", ShapeType(rhs) >> \in Range(state_fields)

(***************************************************************************)
(* Further claims about the emitted program, stated over the program       *)
(* machine.                                                                *)
(***************************************************************************)

\* the statements of the edges that carry no guard
DirectEdgeLines ==
  { AddEdgeLine(NameOf(NodeNames(nodes), edges[k]["source"]),
                NameOf(NodeNames(nodes), edges[k]["target"])) :
      k \in { j \in DOMAIN edges : ~HasCondition(edges[j]) } }

\* the indices of the lines of the text that are among the given lines
LinesAmong(text, lines) == { i \in DOMAIN text : text[i] \in lines }

\* the indices of the lines of the text that hold the given part
LinesWith(text, part) == { i \in DOMAIN text : Contains(text[i], part) }

\* C27: in the edge section of the emitted program all direct
\* (unconditional) edge statements come first and every per-source
\* conditional block comes after them, for any order of guarded and
\* unguarded sources in the document.
C27_DirectEdgesFirst ==
  pc = "emitted" =>
    \A i \in LinesAmong(langgraph_code, DirectEdgeLines) :
      \A j \in LinesWith(langgraph_code, "graph.add_conditional_edges(") : i < j

\* C28: the edges of a source are compiled into guarded routing only if
\* every outgoing edge of the source carries a guard; if at least one
\* outgoing edge is unguarded, every edge of the source, the guarded ones
\* included, is emitted as a plain unconditional transition and its guard
\* text appears nowhere in the output.
C28_MixedSourceIsPlain ==
  (pc = "edges_done" /\ ~AllGuarded) =>
    /\ langgraph_code
         = << "    # --- Edges ---" >>
             \o [k \in DOMAIN edges |-> AddEdgeLine("node_n1", TargetName(k))]
    /\ \A k \in DOMAIN edges :
         (HasCondition(edges[k]) /\ edges[k]["condition"] # "")
           => LinesWith(langgraph_code, edges[k]["condition"]) = {}

\* the edges of a source of which one carries a comparison and the other no
\* guard have been emitted
C28_Witness ==
  /\ pc = "edges_done"
  /\ Len(edges) = 2
  /\ HasCondition(edges[1]) /\ edges[1]["condition"] = "x == 'a'"
  /\ ~HasCondition(edges[2])
  /\ Len(langgraph_code) = 3

\* the names in the first double-quoted string of the lines of the text
\* that hold one of the parts
NamesDeclared(text, parts) ==
  { Search(DQNameAt, text[k]).g1 :
      k \in { j \in DOMAIN text : \E part \in parts : Contains(text[j], part) } }

\* the entry nodes and the exit nodes a program declares
EntryNodes(text) == NamesDeclared(text, {"graph.add_edge(START, ", "graph.set_entry_point("})
ExitNodes(text) == NamesDeclared(text, {", END)", "graph.set_finish_point("})

\* C29: repair preserves the graph structure of an emitter-produced
\* program: the text returned by fix_common_issues registers the same set
\* of node names and declares the same entry node and exit node as the text
\* it was given.
C29_RepairKeepsStructure ==
  pc = "repaired" =>
    /\ RegisteredNodes(fixed_code) = RegisteredNodes(langgraph_code)
    /\ EntryNodes(fixed_code) = EntryNodes(langgraph_code)
    /\ ExitNodes(fixed_code) = ExitNodes(langgraph_code)

(***************************************************************************)
(* A further claim about the conversion, stated over the call.             *)
(***************************************************************************)

\* the names under which the node section of the program, the part before
\* the edge section, registers its nodes, in order
NodeRegistrations(text) ==
  LET node_section == SubSeq(text, 1, FirstIndex(text, "    # --- Edges ---") - 1)
      reg_lines == SelectLines(LAMBDA line : Contains(line, "graph.add_node(\""), node_section)
  IN [k \in DOMAIN reg_lines |-> Search(AddNodeCallAt, reg_lines[k]).g1]

\* C30: node naming is injective: in every successful conversion two nodes
\* with different ids are registered under different node names, whatever
\* their display labels are, so no registration replaces another.
C30_NamingInjective ==
  pc = "returned" =>
    /\ Len(NodeRegistrations(result.text)) = Len(nodes)
    /\ \A i, j \in DOMAIN nodes :
         nodes[i]["id"] # nodes[j]["id"]
           => NodeRegistrations(result.text)[i] # NodeRegistrations(result.text)[j]

====
